---- MODULE Spec2Model ----
(***************************************************************************)
(* The todo service: the in-memory repository (a map of records and an id  *)
(* allocator guarded by one RWMutex), the use-case layer above it, the     *)
(* HTTP route handlers above that, and the middleware chain of the server  *)
(* (Logger, Recovery, Timeout) around them.  Every request is served by    *)
(* its own goroutine; the goroutines interleave at the lock operations of  *)
(* the repository.                                                         *)
(*                                                                         *)
(* Spec      the route handlers called directly, as the handler tests do.  *)
(* ChainSpec the server of main, requests through the middleware chain.    *)
(* LifeSpec  the lifecycle scenario of the integration test on that server.*)
(* CancelSpec the server with clients that go away before the answer.      *)
(* OwnSpec   a caller of the repository in the same process, holding       *)
(*           pointers to records.                                          *)
(* StepSpec  Spec with Create statement by statement under the lock.       *)
(* FairSpec  StepSpec under the scheduling of the Go runtime.              *)
(* PtrSpec   the handlers with the map's values as pointers to objects.    *)
(* LayerSpec callers of the use cases in the same process, on PtrSpec's    *)
(*           repository.                                                   *)
(***************************************************************************)
EXTENDS Integers, Sequences, FiniteSets, TLC

(***************************************************************************)
(* Bounds of the model.                                                    *)
(***************************************************************************)
\* Go's int is a two's complement machine integer; the model keeps the
\* wrap-around and narrows the width from 64 to IntWidth bits.
IntWidth == 5
\* Number of goroutines that serve requests at the same time.
NumProcs == 2
\* Number of client operations in one behaviour: a single request, or the
\* batch of concurrent POSTs.
MaxOps == 3

MaxInt == 2^(IntWidth - 1) - 1
MinInt == 0 - 2^(IntWidth - 1)
Ints == MinInt..MaxInt
\* Arithmetic of Go's int: the result is reduced to the machine width.
Wrap(x) == ((x - MinInt) % 2^IntWidth) + MinInt

Procs == 1..NumProcs

(***************************************************************************)
(* domain.Todo and its validation.                                         *)
(***************************************************************************)
Todo(id, title, description, completed) ==
    [ID |-> id, Title |-> title, Description |-> description, Completed |-> completed]

\* The zero value of domain.Todo (var todo domain.Todo).
ZeroTodo == Todo(0, "", "", FALSE)

ErrNil == "nil"
ErrTodoNotFound == "todo not found"
ErrTodoAlreadyExists == "todo with this ID already exists"
ErrEmptyTitle == "title cannot be empty"

\* Validate that accepts every title.
ValidateNoCheck(t) == ErrNil
Validate(t) == IF t.Title = "" THEN ErrEmptyTitle ELSE ErrNil

(***************************************************************************)
(* The repository methods as functions of the repository state             *)
(* r = [todos, nextID].  Each returns the new state, the error and the     *)
(* value handed back; the caller holds the lock around it.                 *)
(***************************************************************************)
Put(m, k, v) == [x \in (DOMAIN m) \cup {k} |-> IF x = k THEN v ELSE m[x]]
Remove(m, k) == [x \in (DOMAIN m) \ {k} |-> m[x]]
EmptyMap == [x \in {} |-> ZeroTodo]

NewInMemoryTodoRepository == [todos |-> EmptyMap, nextID |-> 1]

\* Create without the occupancy check on a supplied id.
CreateNoConflictCheck(r, todo) ==
    LET t == IF todo.ID = 0 THEN [todo EXCEPT !.ID = r.nextID] ELSE todo
    IN  [err |-> ErrNil, todo |-> t, todos |-> Put(r.todos, t.ID, t),
         nextID |-> IF todo.ID = 0 \/ todo.ID >= r.nextID THEN Wrap(t.ID + 1) ELSE r.nextID]

\* Create that inserts under the counter after advancing it.
CreateOffByOne(r, todo) ==
    IF todo.ID = 0
    THEN LET t == [todo EXCEPT !.ID = r.nextID]
         IN  [err |-> ErrNil, todo |-> t,
              todos |-> Put(r.todos, Wrap(r.nextID + 1), t), nextID |-> Wrap(r.nextID + 1)]
    ELSE IF todo.ID \in DOMAIN r.todos
         THEN [err |-> ErrTodoAlreadyExists, todo |-> todo,
               todos |-> r.todos, nextID |-> r.nextID]
         ELSE [err |-> ErrNil, todo |-> todo,
               todos |-> Put(r.todos, todo.ID, todo),
               nextID |-> IF todo.ID >= r.nextID THEN Wrap(todo.ID + 1) ELSE r.nextID]

\* Create that reports success and stores nothing.
CreateNoStore(r, todo) ==
    LET t == IF todo.ID = 0 THEN [todo EXCEPT !.ID = r.nextID] ELSE todo
    IN  [err |-> ErrNil, todo |-> t, todos |-> r.todos, nextID |-> r.nextID]

Create(r, todo) ==
    IF todo.ID = 0
    THEN LET t == [todo EXCEPT !.ID = r.nextID]
         IN  [err |-> ErrNil, todo |-> t,
              todos |-> Put(r.todos, t.ID, t), nextID |-> Wrap(r.nextID + 1)]
    ELSE IF todo.ID \in DOMAIN r.todos
         THEN [err |-> ErrTodoAlreadyExists, todo |-> todo,
               todos |-> r.todos, nextID |-> r.nextID]
         ELSE [err |-> ErrNil, todo |-> todo,
               todos |-> Put(r.todos, todo.ID, todo),
               nextID |-> IF todo.ID >= r.nextID THEN Wrap(todo.ID + 1) ELSE r.nextID]

\* The orders in which a range over the map can meet its keys.
Orders(S) == {s \in [1..Cardinality(S) -> S] : \A i, j \in DOMAIN s : s[i] = s[j] => i = j}

\* The slices GetAll can return: one entry per key, in the map's iteration
\* order, which Go leaves open.
GetAll(r) == {[i \in DOMAIN o |-> r.todos[o[i]]] : o \in Orders(DOMAIN r.todos)}

GetByID(r, id) ==
    IF id \notin DOMAIN r.todos
    THEN [err |-> ErrTodoNotFound, todo |-> ZeroTodo]
    ELSE [err |-> ErrNil, todo |-> r.todos[id]]

\* Update that inserts when the id is absent.
UpdateUpsert(r, todo) == [err |-> ErrNil, todos |-> Put(r.todos, todo.ID, todo)]

Update(r, todo) ==
    IF todo.ID \notin DOMAIN r.todos
    THEN [err |-> ErrTodoNotFound, todos |-> r.todos]
    ELSE [err |-> ErrNil, todos |-> Put(r.todos, todo.ID, todo)]

\* Delete that reports success and leaves the record in the map.
DeleteKeeps(r, id) ==
    IF id \notin DOMAIN r.todos
    THEN [err |-> ErrTodoNotFound, todos |-> r.todos]
    ELSE [err |-> ErrNil, todos |-> r.todos]

Delete(r, id) ==
    IF id \notin DOMAIN r.todos
    THEN [err |-> ErrTodoNotFound, todos |-> r.todos]
    ELSE [err |-> ErrNil, todos |-> Remove(r.todos, id)]

\* Exists that finds nothing.
ExistsNever(r, id) == FALSE
Exists(r, id) == id \in DOMAIN r.todos

(***************************************************************************)
(* Handler helpers: path parsing, body decoding, responses.                *)
(***************************************************************************)
Digits == <<"0", "1", "2", "3", "4", "5", "6", "7", "8", "9">>
IsDigit(c) == \E i \in 1..10 : Digits[i] = c
DigitVal(c) == (CHOOSE i \in 1..10 : Digits[i] = c) - 1

RECURSIVE Num(_)
Num(s) == IF s = <<>> THEN 0
          ELSE 10 * Num(SubSeq(s, 1, Len(s) - 1)) + DigitVal(s[Len(s)])

\* strconv.Atoi on a string given as its characters: an optional sign, then
\* one or more digits, and the value has to fit an int.
Atoi(s) ==
    LET signed == s # <<>> /\ s[1] \in {"-", "+"}
        ds == IF signed THEN Tail(s) ELSE s
    IN  IF ds = <<>> \/ \E i \in 1..Len(ds) : ~IsDigit(ds[i])
        THEN [err |-> TRUE, n |-> 0]
        ELSE LET v == IF signed /\ s[1] = "-" THEN 0 - Num(ds) ELSE Num(ds)
             IN  IF v < MinInt \/ v > MaxInt
                 THEN [err |-> TRUE, n |-> 0]
                 ELSE [err |-> FALSE, n |-> v]

\* extractIDFromPath that reports no error and gives 0 where it cannot parse.
extractIDFromPathLenient(parts) ==
    IF Len(parts) < 2 THEN [err |-> FALSE, n |-> 0]
    ELSE [Atoi(parts[2]) EXCEPT !.err = FALSE]

\* A path is given as its parts, strings.Split(strings.Trim(path, "/"), "/").
extractIDFromPath(parts) ==
    IF Len(parts) < 2 THEN [err |-> TRUE, n |-> 0] ELSE Atoi(parts[2])

\* json.Decode of a request body into a zero Todo: a field the object does
\* not carry keeps its zero value.
Decode(body) ==
    IF ~body.wellFormed
    THEN [err |-> TRUE, todo |-> ZeroTodo]
    ELSE [err |-> FALSE,
          todo |-> Todo(IF body.hasID THEN body.id ELSE 0,
                        body.title, body.description, body.completed)]

StatusOK == 200
StatusCreated == 201
StatusNoContent == 204
StatusBadRequest == 400
StatusNotFound == 404
StatusMethodNotAllowed == 405
StatusConflict == 409
StatusInternalServerError == 500

NoResp == [code |-> 0, kind |-> "none", todo |-> ZeroTodo, todos |-> <<>>, error |-> ""]
respondWithTodo(code, t) == [NoResp EXCEPT !.code = code, !.kind = "todo", !.todo = t]
respondWithTodos(code, ts) == [NoResp EXCEPT !.code = code, !.kind = "todos", !.todos = ts]
respondWithError(code, message) ==
    [NoResp EXCEPT !.code = code, !.kind = "error", !.error = message]
respondNoContent == [NoResp EXCEPT !.code = StatusNoContent, !.kind = "empty"]

(***************************************************************************)
(* The requests of the model.                                              *)
(***************************************************************************)
\* "PATCH" stands for every method a route does not support.
Methods == {"POST", "GET", "PUT", "DELETE", "PATCH"}

\* The segment after /todos/ : missing, not a number, out of range, 1, 2, -1.
Segments == {<<>>, <<"a">>, <<"9", "9">>, <<"1">>, <<"2">>, <<"-", "1">>}
PathParts(seg) == IF seg = <<>> THEN <<"todos">> ELSE <<"todos", seg>>

Payloads == {[title |-> "", description |-> "d", completed |-> FALSE],
             [title |-> "a", description |-> "", completed |-> FALSE],
             [title |-> "b", description |-> "d", completed |-> TRUE]}
BodyIDs == {-1, 2, MinInt, MaxInt}
NoBody == [wellFormed |-> FALSE, hasID |-> FALSE, id |-> 0,
           title |-> "", description |-> "", completed |-> FALSE]
JSONBody(hasID, id, pl) ==
    [wellFormed |-> TRUE, hasID |-> hasID, id |-> id,
     title |-> pl.title, description |-> pl.description, completed |-> pl.completed]
Bodies == {NoBody} \cup {JSONBody(FALSE, 0, pl) : pl \in Payloads}
                   \cup {JSONBody(TRUE, i, pl) : i \in BodyIDs, pl \in Payloads}
\* The id in the body of a PUT is overwritten by the path's.
PutBodies == {NoBody} \cup {JSONBody(FALSE, 0, pl) : pl \in Payloads}
                      \cup {JSONBody(TRUE, 2, pl) : pl \in Payloads}

(***************************************************************************)
(* State.                                                                  *)
(***************************************************************************)
VARIABLES
    todos,      \* InMemoryTodoRepository.todos : key -> record
    nextID,     \* InMemoryTodoRepository.nextID
    mu,         \* InMemoryTodoRepository.mu : the writer and the readers holding it
    pc,         \* where each goroutine stands in its request
    handler,    \* the route handler serving the goroutine's request
    call,       \* the repository method the goroutine is calling
    id,         \* the id the handler parsed from the path
    todo,       \* the handler's local record (var todo domain.Todo)
    resp,       \* the response the handler wrote
    nreq,       \* number of client operations so far
    burst,      \* the client's concurrent batch of POSTs without an id
    lastWrite,  \* history: per id, the last successful write and its input
    autoIDs,    \* history: the ids the allocator handed out
    net,        \* history: successful Creates minus successful Deletes
    req,        \* the request each goroutine serves (r *http.Request)
    mw,         \* the middleware chain around each request
    life,       \* the client of the lifecycle scenario
    ref,        \* the keys whose stored record a direct caller holds a pointer to
    heap        \* the Todo objects of the handlers and the pointers to them

vars == <<todos, nextID, mu, pc, handler, call, id, todo, resp, nreq, burst,
          lastWrite, autoIDs, net, req, mw, life, ref, heap>>

repo == [todos |-> todos, nextID |-> nextID]

NoBurst == [on |-> FALSE, before |-> 0, left |-> {}]

Request(route, method, seg, body) ==
    [route |-> route, method |-> method, seg |-> seg, body |-> body]
NoReq == Request("", "", <<>>, NoBody)

\* What the client has been sent: the status line and the bodies written.
NoSent == [code |-> 0, body |-> <<>>]
\* No middleware around the goroutine: the handler is called directly.
\* expired and cancelled are the two ways the request's context ends, the
\* deadline and the parent's cancellation; the first of them stays.  early
\* is history: done was closed before the deadline elapsed.
NoMw == [at |-> "idle", statusCode |-> 0, sent |-> NoSent, expired |-> FALSE, logged |-> 0,
         early |-> FALSE, cancelled |-> FALSE]

NoLife == [on |-> FALSE, step |-> 0, late |-> FALSE, got |-> <<>>, post |-> NoBody, put |-> NoBody]

\* No Todo object yet.  obj gives every object made so far its fields, key
\* the object the map holds under each id (the map's values are pointers),
\* loc the object a handler declared for its request, got the object GetByID
\* handed out; seen is history, the fields of got when it was handed out.
NoHeap == [obj |-> <<>>, key |-> <<>>,
           loc |-> [p \in Procs |-> 0], got |-> [p \in Procs |-> 0],
           seen |-> [p \in Procs |-> ZeroTodo]]

\* The state after construction, but for the client.
Fresh ==
    /\ todos = NewInMemoryTodoRepository.todos
    /\ nextID = NewInMemoryTodoRepository.nextID
    /\ mu = [w |-> 0, r |-> {}]
    /\ pc = [p \in Procs |-> "idle"]
    /\ handler = [p \in Procs |-> "none"]
    /\ call = [p \in Procs |-> "none"]
    /\ id = [p \in Procs |-> 0]
    /\ todo = [p \in Procs |-> ZeroTodo]
    /\ resp = [p \in Procs |-> NoResp]
    /\ nreq = 0
    /\ burst = NoBurst
    /\ lastWrite = [x \in {} |-> [kind |-> "create", todo |-> ZeroTodo]]
    /\ autoIDs = {}
    /\ net = 0
    /\ req = [p \in Procs |-> NoReq]
    /\ mw = [p \in Procs |-> NoMw]
    /\ ref = {}
    /\ heap = NoHeap

Init == Fresh /\ life = NoLife

(***************************************************************************)
(* responseWriter, Logger's wrapper around the server's ResponseWriter.    *)
(* WriteHeader records the code and forwards it; the server takes the      *)
(* first status it is given and ignores a later one.  Write is not         *)
(* overridden: a body written before any status makes the server send 200, *)
(* and the wrapper's statusCode is left as it is; after a 204 the server   *)
(* refuses a body.  Once the outermost handler has returned the response   *)
(* is finished and nothing more is sent.                                   *)
(***************************************************************************)
WriteHeader(m, code) ==
    [m EXCEPT !.statusCode = code,
              !.sent = IF m.at # "logged" /\ @.code = 0 THEN [@ EXCEPT !.code = code] ELSE @]

Write(m, r) ==
    [m EXCEPT !.sent = IF m.at = "logged" \/ @.code = StatusNoContent THEN @
                       ELSE [code |-> IF @.code = 0 THEN StatusOK ELSE @.code,
                             body |-> Append(@.body, r)]]

\* respondWithJSON and http.Error: the status, then the body; a 204 has no body.
Send(m, r) == IF r.kind = "empty" THEN WriteHeader(m, r.code)
              ELSE Write(WriteHeader(m, r.code), [r EXCEPT !.code = 0])

\* Goroutine p writes response r to the w it was given: Logger's wrapper in
\* the chain, the caller's recorder when the handler is called directly.
WriteResp(p, r) ==
    /\ resp' = [resp EXCEPT ![p] = r]
    /\ mw' = IF mw[p].at = "idle" THEN mw ELSE [mw EXCEPT ![p] = Send(mw[p], r)]

WriteCalls == {"Create", "Update", "Delete"}
ReadCalls == {"GetAll", "GetByID", "Exists"}

\* The goroutine goes on to call repository method c.
CallRepo(p, h, c, i, t) ==
    /\ pc' = [pc EXCEPT ![p] = "Lock"]
    /\ handler' = [handler EXCEPT ![p] = h]
    /\ call' = [call EXCEPT ![p] = c]
    /\ id' = [id EXCEPT ![p] = i]
    /\ todo' = [todo EXCEPT ![p] = t]
    /\ resp' = [resp EXCEPT ![p] = NoResp]
    /\ UNCHANGED mw

\* The handler writes response r and is about to return.
Respond(p, h, i, t, r) ==
    /\ pc' = [pc EXCEPT ![p] = "done"]
    /\ handler' = [handler EXCEPT ![p] = h]
    /\ call' = [call EXCEPT ![p] = "none"]
    /\ id' = [id EXCEPT ![p] = i]
    /\ todo' = [todo EXCEPT ![p] = t]
    /\ WriteResp(p, r)

\* A return path that leaves the mutex locked.
UnlockForgotten == mu' = mu
Unlock == mu' = [mu EXCEPT !.w = 0]
RUnlock(p) == mu' = [mu EXCEPT !.r = @ \ {p}]

\* HandleTodos without its default case: every method but POST is served as
\* a GET.
ServeTodosNoDefault(p, r) ==
    IF r.method = "POST"
    THEN LET dec == Decode(r.body)
             err == Validate(dec.todo)
         IN  IF dec.err
             THEN Respond(p, "CreateTodo", 0, dec.todo,
                          respondWithError(StatusBadRequest, "Invalid request body"))
             ELSE IF err # ErrNil
             THEN Respond(p, "CreateTodo", 0, dec.todo,
                          respondWithError(StatusBadRequest, err))
             ELSE CallRepo(p, "CreateTodo", "Create", 0, dec.todo)
    ELSE CallRepo(p, "GetAllTodos", "GetAll", 0, ZeroTodo)

(***************************************************************************)
(* HandleTodos on request r, and for a POST the handler CreateTodo and the *)
(* use case CreateTodo up to the repository call.                          *)
(***************************************************************************)
ServeTodos(p, r) ==
    IF r.method = "POST"
    THEN LET dec == Decode(r.body)
             err == Validate(dec.todo)
         IN  IF dec.err
             THEN Respond(p, "CreateTodo", 0, dec.todo,
                          respondWithError(StatusBadRequest, "Invalid request body"))
             ELSE IF err # ErrNil
             THEN Respond(p, "CreateTodo", 0, dec.todo,
                          respondWithError(StatusBadRequest, err))
             ELSE CallRepo(p, "CreateTodo", "Create", 0, dec.todo)
    ELSE IF r.method = "GET"
    THEN CallRepo(p, "GetAllTodos", "GetAll", 0, ZeroTodo)
    ELSE Respond(p, "HandleTodos", 0, ZeroTodo,
                 respondWithError(StatusMethodNotAllowed, "Method not allowed"))

\* HandleTodoByID whose PUT looks for the id before it validates the title.
ServeTodoByIDExistsFirst(p, r) ==
    LET parsed == extractIDFromPath(PathParts(r.seg))
        dec == Decode(r.body)
    IN  IF parsed.err
        THEN Respond(p, "HandleTodoByID", 0, ZeroTodo,
                     respondWithError(StatusBadRequest, "Invalid todo ID"))
        ELSE IF r.method = "GET"
        THEN CallRepo(p, "GetTodoByID", "GetByID", parsed.n, ZeroTodo)
        ELSE IF r.method = "DELETE"
        THEN CallRepo(p, "DeleteTodo", "Delete", parsed.n, ZeroTodo)
        ELSE IF r.method = "PUT"
        THEN IF dec.err
             THEN Respond(p, "UpdateTodo", parsed.n, dec.todo,
                          respondWithError(StatusBadRequest, "Invalid request body"))
             ELSE CallRepo(p, "UpdateTodo", "Exists", parsed.n, dec.todo)
        ELSE Respond(p, "HandleTodoByID", parsed.n, ZeroTodo,
                     respondWithError(StatusMethodNotAllowed, "Method not allowed"))

(***************************************************************************)
(* HandleTodoByID on request r, and the handlers and use cases it          *)
(* dispatches to, up to the first repository call.                         *)
(***************************************************************************)
ServeTodoByID(p, r) ==
    LET parsed == extractIDFromPath(PathParts(r.seg))
        dec == Decode(r.body)
        err == Validate(dec.todo)
    IN  IF parsed.err
        THEN Respond(p, "HandleTodoByID", 0, ZeroTodo,
                     respondWithError(StatusBadRequest, "Invalid todo ID"))
        ELSE IF r.method = "GET"
        THEN CallRepo(p, "GetTodoByID", "GetByID", parsed.n, ZeroTodo)
        ELSE IF r.method = "DELETE"
        THEN CallRepo(p, "DeleteTodo", "Delete", parsed.n, ZeroTodo)
        ELSE IF r.method = "PUT"
        THEN IF dec.err
             THEN Respond(p, "UpdateTodo", parsed.n, dec.todo,
                          respondWithError(StatusBadRequest, "Invalid request body"))
             ELSE IF err # ErrNil
             THEN Respond(p, "UpdateTodo", parsed.n, dec.todo,
                          respondWithError(StatusBadRequest, err))
             ELSE CallRepo(p, "UpdateTodo", "Exists", parsed.n, dec.todo)
        ELSE Respond(p, "HandleTodoByID", parsed.n, ZeroTodo,
                     respondWithError(StatusMethodNotAllowed, "Method not allowed"))

(***************************************************************************)
(* A request for /todos is handed to HandleTodos directly, with no         *)
(* middleware around it.                                                   *)
(***************************************************************************)
HandleTodos(p) ==
    /\ pc[p] = "idle"
    /\ mw[p].at = "idle"
    /\ IF burst.on THEN p \in burst.left ELSE nreq < MaxOps
    /\ \E method \in (IF burst.on THEN {"POST"} ELSE Methods) :
       \E body \in (IF burst.on
                    THEN {JSONBody(FALSE, 0, pl) : pl \in {q \in Payloads : q.title # ""}}
                    ELSE IF method = "POST" THEN Bodies ELSE {NoBody}) :
          /\ req' = [req EXCEPT ![p] = Request("/todos", method, <<>>, body)]
          /\ ServeTodos(p, Request("/todos", method, <<>>, body))
    /\ nreq' = IF burst.on THEN nreq ELSE nreq + 1
    /\ burst' = IF burst.on THEN [burst EXCEPT !.left = @ \ {p}] ELSE burst
    /\ UNCHANGED <<todos, nextID, mu, lastWrite, autoIDs, net, life, ref, heap>>

(***************************************************************************)
(* A request for /todos/{segment} is handed to HandleTodoByID directly.    *)
(***************************************************************************)
HandleTodoByID(p) ==
    /\ pc[p] = "idle"
    /\ mw[p].at = "idle"
    /\ nreq < MaxOps
    /\ ~burst.on
    /\ \E method \in Methods, seg \in Segments :
       \E body \in (IF method = "PUT" THEN PutBodies ELSE {NoBody}) :
          /\ req' = [req EXCEPT ![p] = Request("/todos/", method, seg, body)]
          /\ ServeTodoByID(p, Request("/todos/", method, seg, body))
    /\ nreq' = nreq + 1
    /\ UNCHANGED <<todos, nextID, mu, burst, lastWrite, autoIDs, net, life, ref, heap>>

(***************************************************************************)
(* sync.RWMutex: Lock waits until nobody holds the mutex, RLock until no   *)
(* writer holds it.                                                        *)
(***************************************************************************)
\* Lock that does not wait for the holders of the mutex.
LockNoWait(p) ==
    /\ pc[p] = "Lock"
    /\ call[p] \in WriteCalls
    /\ mu' = [mu EXCEPT !.w = p]
    /\ pc' = [pc EXCEPT ![p] = "Locked"]
    /\ UNCHANGED <<todos, nextID, handler, call, id, todo, resp, nreq, burst,
                   lastWrite, autoIDs, net, req, mw, life, ref, heap>>

Lock(p) ==
    /\ pc[p] = "Lock"
    /\ call[p] \in WriteCalls
    /\ mu.w = 0
    /\ mu.r = {}
    /\ mu' = [mu EXCEPT !.w = p]
    /\ pc' = [pc EXCEPT ![p] = "Locked"]
    /\ UNCHANGED <<todos, nextID, handler, call, id, todo, resp, nreq, burst,
                   lastWrite, autoIDs, net, req, mw, life, ref, heap>>

\* RLock that does not wait for the writer holding the mutex.
RLockNoWait(p) ==
    /\ pc[p] = "Lock"
    /\ call[p] \in ReadCalls
    /\ mu' = [mu EXCEPT !.r = @ \cup {p}]
    /\ pc' = [pc EXCEPT ![p] = "Locked"]
    /\ UNCHANGED <<todos, nextID, handler, call, id, todo, resp, nreq, burst,
                   lastWrite, autoIDs, net, req, mw, life, ref, heap>>

RLock(p) ==
    /\ pc[p] = "Lock"
    /\ call[p] \in ReadCalls
    /\ mu.w = 0
    /\ mu' = [mu EXCEPT !.r = @ \cup {p}]
    /\ pc' = [pc EXCEPT ![p] = "Locked"]
    /\ UNCHANGED <<todos, nextID, handler, call, id, todo, resp, nreq, burst,
                   lastWrite, autoIDs, net, req, mw, life, ref, heap>>

(***************************************************************************)
(* The repository methods under the lock.  Each action is the method's     *)
(* body, its deferred unlock, and what the use case and the handler do     *)
(* with the outcome, up to the response or the next repository call.       *)
(***************************************************************************)
Held(p, c) == pc[p] = "Locked" /\ call[p] = c

RepoCreate(p) ==
    /\ Held(p, "Create")
    /\ LET out == Create(repo, todo[p])
       IN  /\ todos' = out.todos
           /\ nextID' = out.nextID
           /\ todo' = [todo EXCEPT ![p] = out.todo]
           /\ WriteResp(p, IF out.err = ErrNil
                           THEN respondWithTodo(StatusCreated, out.todo)
                           ELSE IF out.err = ErrTodoAlreadyExists
                           THEN respondWithError(StatusConflict, out.err)
                           ELSE respondWithError(StatusBadRequest, out.err))
           /\ lastWrite' = IF out.err = ErrNil
                           THEN Put(lastWrite, out.todo.ID,
                                    [kind |-> "create", todo |-> todo[p]])
                           ELSE lastWrite
           /\ autoIDs' = IF out.err = ErrNil /\ todo[p].ID = 0
                         THEN autoIDs \cup {out.todo.ID}
                         ELSE autoIDs
           /\ net' = IF out.err = ErrNil THEN net + 1 ELSE net
    /\ Unlock
    /\ pc' = [pc EXCEPT ![p] = "done"]
    /\ call' = [call EXCEPT ![p] = "none"]
    /\ UNCHANGED <<handler, id, nreq, burst, req, life, ref, heap>>

RepoGetAll(p) ==
    /\ Held(p, "GetAll")
    /\ \E ts \in GetAll(repo) : WriteResp(p, respondWithTodos(StatusOK, ts))
    /\ RUnlock(p)
    /\ pc' = [pc EXCEPT ![p] = "done"]
    /\ call' = [call EXCEPT ![p] = "none"]
    /\ UNCHANGED <<todos, nextID, handler, id, todo, nreq, burst, lastWrite, autoIDs,
                   net, req, life, ref, heap>>

RepoGetByID(p) ==
    /\ Held(p, "GetByID")
    /\ LET out == GetByID(repo, id[p])
       IN  WriteResp(p, IF out.err = ErrNil
                        THEN respondWithTodo(StatusOK, out.todo)
                        ELSE IF out.err = ErrTodoNotFound
                        THEN respondWithError(StatusNotFound, "Todo not found")
                        ELSE respondWithError(StatusInternalServerError,
                                              "Failed to fetch todo"))
    /\ RUnlock(p)
    /\ pc' = [pc EXCEPT ![p] = "done"]
    /\ call' = [call EXCEPT ![p] = "none"]
    /\ UNCHANGED <<todos, nextID, handler, id, todo, nreq, burst, lastWrite, autoIDs,
                   net, req, life, ref, heap>>

\* UpdateTodo sets the path's id on the record it was given (todo.ID = id).
SetIDKeepsPayload(t, i) == t
SetID(t, i) == [t EXCEPT !.ID = i]

\* UpdateTodo's existence check; when the id is there the use case sets
\* todo.ID = id and goes on to call Update.
RepoExists(p) ==
    /\ Held(p, "Exists")
    /\ RUnlock(p)
    /\ IF Exists(repo, id[p])
       THEN /\ todo' = [todo EXCEPT ![p] = SetID(todo[p], id[p])]
            /\ call' = [call EXCEPT ![p] = "Update"]
            /\ pc' = [pc EXCEPT ![p] = "Lock"]
            /\ UNCHANGED <<resp, mw>>
       ELSE /\ WriteResp(p, respondWithError(StatusNotFound, "Todo not found"))
            /\ call' = [call EXCEPT ![p] = "none"]
            /\ pc' = [pc EXCEPT ![p] = "done"]
            /\ UNCHANGED todo
    /\ UNCHANGED <<todos, nextID, handler, id, nreq, burst, lastWrite, autoIDs,
                   net, req, life, ref, heap>>

RepoUpdate(p) ==
    /\ Held(p, "Update")
    /\ LET out == Update(repo, todo[p])
       IN  /\ todos' = out.todos
           /\ WriteResp(p, IF out.err = ErrNil
                           THEN respondWithTodo(StatusOK, todo[p])
                           ELSE IF out.err = ErrTodoNotFound
                           THEN respondWithError(StatusNotFound, "Todo not found")
                           ELSE respondWithError(StatusBadRequest, out.err))
           /\ lastWrite' = IF out.err = ErrNil
                           THEN Put(lastWrite, todo[p].ID,
                                    [kind |-> "update", todo |-> todo[p]])
                           ELSE lastWrite
    /\ Unlock
    /\ pc' = [pc EXCEPT ![p] = "done"]
    /\ call' = [call EXCEPT ![p] = "none"]
    /\ UNCHANGED <<nextID, handler, id, todo, nreq, burst, autoIDs, net, req, life, ref,
                   heap>>

RepoDelete(p) ==
    /\ Held(p, "Delete")
    /\ LET out == Delete(repo, id[p])
       IN  /\ todos' = out.todos
           /\ WriteResp(p, IF out.err = ErrNil
                           THEN respondNoContent
                           ELSE IF out.err = ErrTodoNotFound
                           THEN respondWithError(StatusNotFound, "Todo not found")
                           ELSE respondWithError(StatusInternalServerError,
                                                 "Failed to delete todo"))
           /\ lastWrite' = IF out.err = ErrNil
                           THEN Put(lastWrite, id[p],
                                    [kind |-> "delete", todo |-> ZeroTodo])
                           ELSE lastWrite
           /\ net' = IF out.err = ErrNil THEN net - 1 ELSE net
    /\ Unlock
    /\ pc' = [pc EXCEPT ![p] = "done"]
    /\ call' = [call EXCEPT ![p] = "none"]
    /\ UNCHANGED <<nextID, handler, id, todo, nreq, burst, autoIDs, req, life, ref, heap>>

\* The handler returns to its caller and the goroutine is free for the next
\* request.
Return(p) ==
    /\ pc[p] = "done"
    /\ mw[p].at = "idle"
    /\ ~burst.on
    /\ pc' = [pc EXCEPT ![p] = "idle"]
    /\ handler' = [handler EXCEPT ![p] = "none"]
    /\ id' = [id EXCEPT ![p] = 0]
    /\ todo' = [todo EXCEPT ![p] = ZeroTodo]
    /\ resp' = [resp EXCEPT ![p] = NoResp]
    /\ req' = [req EXCEPT ![p] = NoReq]
    /\ UNCHANGED <<todos, nextID, mu, call, nreq, burst, lastWrite, autoIDs,
                   net, mw, life, ref, heap>>

(***************************************************************************)
(* The client of TestIntegration_ConcurrentRequests: with no request in    *)
(* flight it sends one POST without an id to every goroutine at once, and  *)
(* reads the store when all of them have answered.                         *)
(***************************************************************************)
StartBurst ==
    /\ ~burst.on
    /\ \A p \in Procs : pc[p] = "idle"
    /\ nreq < MaxOps
    /\ nreq' = nreq + 1
    /\ burst' = [on |-> TRUE, before |-> Cardinality(DOMAIN todos), left |-> Procs]
    /\ UNCHANGED <<todos, nextID, mu, pc, handler, call, id, todo, resp,
                   lastWrite, autoIDs, net, req, mw, life, ref, heap>>

BurstDone == burst.on /\ burst.left = {} /\ \A p \in Procs : pc[p] = "done"

EndBurst ==
    /\ BurstDone
    /\ burst' = NoBurst
    /\ UNCHANGED <<todos, nextID, mu, pc, handler, call, id, todo, resp, nreq,
                   lastWrite, autoIDs, net, req, mw, life, ref, heap>>

Next ==
    \/ \E p \in Procs : HandleTodos(p)
    \/ \E p \in Procs : HandleTodoByID(p)
    \/ \E p \in Procs : Lock(p)
    \/ \E p \in Procs : RLock(p)
    \/ \E p \in Procs : RepoCreate(p)
    \/ \E p \in Procs : RepoGetAll(p)
    \/ \E p \in Procs : RepoGetByID(p)
    \/ \E p \in Procs : RepoExists(p)
    \/ \E p \in Procs : RepoUpdate(p)
    \/ \E p \in Procs : RepoDelete(p)
    \/ \E p \in Procs : Return(p)
    \/ StartBurst
    \/ EndBurst

Spec == Init /\ [][Next]_vars

TypeOK ==
    /\ DOMAIN todos \subseteq Ints
    /\ nextID \in Ints
    /\ mu.w \in Procs \cup {0}
    /\ mu.r \subseteq Procs
    /\ \A p \in Procs : pc[p] \in {"idle", "go", "Lock", "Locked", "Assigned", "Encode",
                                 "done", "closed", "exit"}
    /\ nreq \in 0..MaxOps

(***************************************************************************)
(* The server of main: Logger(Recovery(Timeout(mux))).  A request enters   *)
(* Logger, which wraps w with statusCode 200, passes Recovery, which       *)
(* defers its recover, and reaches Timeout, which starts a goroutine for   *)
(* the mux and waits in its select for done or for the deadline.           *)
(***************************************************************************)
StatusRequestTimeout == 408

ServeHTTP(p, r) ==
    /\ pc[p] = "idle"
    /\ mw[p].at = "idle"
    /\ req' = [req EXCEPT ![p] = r]
    /\ mw' = [mw EXCEPT ![p] = [NoMw EXCEPT !.at = "select", !.statusCode = StatusOK]]
    /\ pc' = [pc EXCEPT ![p] = "go"]
    /\ UNCHANGED <<todos, nextID, mu, handler, call, id, todo, resp, burst,
                   lastWrite, autoIDs, net, ref, heap>>

\* The requests clients send to the server.
ChainRequests ==
    {Request("/todos", "POST", <<>>, JSONBody(FALSE, 0, pl)) : pl \in Payloads}
    \cup {Request("/todos", m, <<>>, NoBody) : m \in {"GET", "PATCH"}}
    \cup {Request("/todos/", m, seg, NoBody) :
             m \in {"GET", "DELETE"}, seg \in {<<"1">>, <<"a">>}}
    \cup {Request("/todos/", "PUT", <<"1">>, JSONBody(FALSE, 0, pl)) :
             pl \in {q \in Payloads : q.completed}}
    \cup {Request("/health", "GET", <<>>, NoBody)}

Accept(p) ==
    /\ nreq < MaxOps
    /\ \E r \in ChainRequests : ServeHTTP(p, r)
    /\ nreq' = nreq + 1
    /\ UNCHANGED life

\* The /health handler of main: the body first, which makes the server send
\* 200, then WriteHeader(200).
ServeHealth(p) ==
    /\ pc' = [pc EXCEPT ![p] = "done"]
    /\ handler' = [handler EXCEPT ![p] = "health"]
    /\ call' = [call EXCEPT ![p] = "none"]
    /\ id' = [id EXCEPT ![p] = 0]
    /\ todo' = [todo EXCEPT ![p] = ZeroTodo]
    /\ resp' = [resp EXCEPT ![p] = [NoResp EXCEPT !.code = StatusOK, !.kind = "text"]]
    /\ mw' = [mw EXCEPT ![p] =
                 WriteHeader(Write(mw[p], [NoResp EXCEPT !.kind = "text"]), StatusOK)]

\* The goroutine Timeout started runs the mux, which picks the route's
\* handler.
Mux(p) ==
    /\ pc[p] = "go"
    /\ IF req[p].route = "/todos" THEN ServeTodos(p, req[p])
       ELSE IF req[p].route = "/todos/" THEN ServeTodoByID(p, req[p])
       ELSE ServeHealth(p)
    /\ UNCHANGED <<todos, nextID, mu, nreq, burst, lastWrite, autoIDs, net, req, life, ref,
                   heap>>

\* next.ServeHTTP has returned in the goroutine: close(done).
CloseDone(p) ==
    /\ pc[p] = "done"
    /\ mw[p].at # "idle"
    /\ pc' = [pc EXCEPT ![p] = "closed"]
    /\ mw' = [mw EXCEPT ![p].early = ~mw[p].expired]
    /\ UNCHANGED <<todos, nextID, mu, handler, call, id, todo, resp, nreq, burst,
                   lastWrite, autoIDs, net, req, life, ref, heap>>

\* select, case <-done: Timeout returns, and Recovery after it.
SelectDone(p) ==
    /\ mw[p].at = "select"
    /\ pc[p] = "closed"
    /\ mw' = [mw EXCEPT ![p].at = "returned"]
    /\ UNCHANGED <<todos, nextID, mu, pc, handler, call, id, todo, resp, nreq, burst,
                   lastWrite, autoIDs, net, req, life, ref, heap>>

\* The deadline of context.WithTimeout elapses while Timeout is in its select.
Deadline(p) ==
    /\ mw[p].at = "select"
    /\ ~mw[p].expired
    /\ ~mw[p].cancelled
    /\ mw' = [mw EXCEPT ![p].expired = TRUE]
    /\ life' = [life EXCEPT !.late = life.on]
    /\ UNCHANGED <<todos, nextID, mu, pc, handler, call, id, todo, resp, nreq, burst,
                   lastWrite, autoIDs, net, req, ref, heap>>

\* select that takes case <-ctx.Done() only once done is closed as well.
SelectCtxDoneWaits(p) ==
    /\ mw[p].at = "select"
    /\ mw[p].expired
    /\ pc[p] = "closed"
    /\ mw' = [mw EXCEPT ![p] =
                 [Send(mw[p], respondWithError(StatusRequestTimeout, "Request timeout"))
                     EXCEPT !.at = "returned"]]
    /\ UNCHANGED <<todos, nextID, mu, pc, handler, call, id, todo, resp, nreq, burst,
                   lastWrite, autoIDs, net, req, life, ref, heap>>

\* select, case <-ctx.Done() with ctx.Err() = DeadlineExceeded:
\* http.Error(w, "Request timeout", 408) on Logger's wrapper, and Timeout
\* returns; the goroutine it started is left to itself.
SelectCtxDone(p) ==
    /\ mw[p].at = "select"
    /\ mw[p].expired
    /\ mw' = [mw EXCEPT ![p] =
                 [Send(mw[p], respondWithError(StatusRequestTimeout, "Request timeout"))
                     EXCEPT !.at = "returned"]]
    /\ UNCHANGED <<todos, nextID, mu, pc, handler, call, id, todo, resp, nreq, burst,
                   lastWrite, autoIDs, net, req, life, ref, heap>>

\* Back in Logger: log.Printf of wrapper.statusCode, and the handler chain
\* returns, which finishes the response the client receives.
Log(p) ==
    /\ mw[p].at = "returned"
    /\ mw' = [mw EXCEPT ![p].logged = mw[p].statusCode, ![p].at = "logged"]
    /\ life' = IF life.on THEN [life EXCEPT !.got = Append(@, mw[p].sent)] ELSE life
    /\ UNCHANGED <<todos, nextID, mu, pc, handler, call, id, todo, resp, nreq, burst,
                   lastWrite, autoIDs, net, req, ref, heap>>

\* The request is over on both sides: the response is finished and the
\* goroutine Timeout started has ended.
Free(p) ==
    /\ mw[p].at = "logged"
    /\ pc[p] = "closed"
    /\ pc' = [pc EXCEPT ![p] = "idle"]
    /\ handler' = [handler EXCEPT ![p] = "none"]
    /\ id' = [id EXCEPT ![p] = 0]
    /\ todo' = [todo EXCEPT ![p] = ZeroTodo]
    /\ resp' = [resp EXCEPT ![p] = NoResp]
    /\ req' = [req EXCEPT ![p] = NoReq]
    /\ mw' = [mw EXCEPT ![p] = NoMw]
    /\ UNCHANGED <<todos, nextID, mu, call, nreq, burst, lastWrite, autoIDs,
                   net, life, ref, heap>>

(***************************************************************************)
(* A panic in the goroutine Timeout started.  recover() only sees a panic  *)
(* of the goroutine whose deferred function calls it; Recovery's deferred  *)
(* function belongs to the goroutine that is waiting in Timeout's select,  *)
(* so the panic goes uncaught to the top of the goroutine and the runtime  *)
(* ends the process: every goroutine stops and the store is gone.  The     *)
(* clients keep what they had been sent.                                   *)
(***************************************************************************)
Panic(p) ==
    /\ mw[p].at \notin {"idle", "exit"}
    /\ pc[p] \in {"go", "Lock", "Locked", "done"}
    /\ pc' = [q \in Procs |-> "exit"]
    /\ mw' = [q \in Procs |-> [mw[q] EXCEPT !.at = "exit"]]
    /\ todos' = EmptyMap
    /\ nextID' = 0
    /\ mu' = [w |-> 0, r |-> {}]
    /\ handler' = [q \in Procs |-> "none"]
    /\ call' = [q \in Procs |-> "none"]
    /\ id' = [q \in Procs |-> 0]
    /\ todo' = [q \in Procs |-> ZeroTodo]
    /\ resp' = [q \in Procs |-> NoResp]
    /\ req' = [q \in Procs |-> NoReq]
    /\ lastWrite' = [x \in {} |-> [kind |-> "create", todo |-> ZeroTodo]]
    /\ autoIDs' = {}
    /\ net' = 0
    /\ UNCHANGED <<nreq, burst, life, ref, heap>>

Exited == \A p \in Procs : pc[p] = "exit"

ChainNext ==
    \/ \E p \in Procs : Accept(p)
    \/ \E p \in Procs : Mux(p)
    \/ \E p \in Procs : Lock(p)
    \/ \E p \in Procs : RLock(p)
    \/ \E p \in Procs : RepoCreate(p)
    \/ \E p \in Procs : RepoGetAll(p)
    \/ \E p \in Procs : RepoGetByID(p)
    \/ \E p \in Procs : RepoExists(p)
    \/ \E p \in Procs : RepoUpdate(p)
    \/ \E p \in Procs : RepoDelete(p)
    \/ \E p \in Procs : CloseDone(p)
    \/ \E p \in Procs : SelectDone(p)
    \/ \E p \in Procs : Deadline(p)
    \/ \E p \in Procs : SelectCtxDone(p)
    \/ \E p \in Procs : Log(p)
    \/ \E p \in Procs : Free(p)
    \/ \E p \in Procs : Panic(p)

ChainSpec == Init /\ [][ChainNext]_vars


(***************************************************************************)
(* The parent context of a request is cancelled, as the server does when   *)
(* the client's connection goes away: the context Timeout derived ends     *)
(* with ctx.Err() = Canceled unless its deadline had ended it before.      *)
(* CancelSpec is the server with clients that may go away, and without     *)
(* panics.                                                                 *)
(***************************************************************************)
Cancel(p) ==
    /\ mw[p].at = "select"
    /\ ~mw[p].expired
    /\ ~mw[p].cancelled
    /\ mw' = [mw EXCEPT ![p].cancelled = TRUE]
    /\ UNCHANGED <<todos, nextID, mu, pc, handler, call, id, todo, resp, nreq, burst,
                   lastWrite, autoIDs, net, req, life, ref, heap>>

\* select's ctx.Done() case without the check of ctx.Err(): the 408 is
\* written whatever ended the context.
SelectCancelledWrites(p) ==
    /\ mw[p].at = "select"
    /\ mw[p].cancelled
    /\ mw' = [mw EXCEPT ![p] =
                 [Send(mw[p], respondWithError(StatusRequestTimeout, "Request timeout"))
                     EXCEPT !.at = "returned"]]
    /\ UNCHANGED <<todos, nextID, mu, pc, handler, call, id, todo, resp, nreq, burst,
                   lastWrite, autoIDs, net, req, life, ref, heap>>

\* select, case <-ctx.Done() with ctx.Err() = Canceled: nothing is written
\* and Timeout returns; the goroutine it started is left to itself.
SelectCancelled(p) ==
    /\ mw[p].at = "select"
    /\ mw[p].cancelled
    /\ mw' = [mw EXCEPT ![p].at = "returned"]
    /\ UNCHANGED <<todos, nextID, mu, pc, handler, call, id, todo, resp, nreq, burst,
                   lastWrite, autoIDs, net, req, life, ref, heap>>

CancelNext ==
    \/ \E p \in Procs : Accept(p)
    \/ \E p \in Procs : Mux(p)
    \/ \E p \in Procs : Lock(p)
    \/ \E p \in Procs : RLock(p)
    \/ \E p \in Procs : RepoCreate(p)
    \/ \E p \in Procs : RepoGetAll(p)
    \/ \E p \in Procs : RepoGetByID(p)
    \/ \E p \in Procs : RepoExists(p)
    \/ \E p \in Procs : RepoUpdate(p)
    \/ \E p \in Procs : RepoDelete(p)
    \/ \E p \in Procs : CloseDone(p)
    \/ \E p \in Procs : SelectDone(p)
    \/ \E p \in Procs : Deadline(p)
    \/ \E p \in Procs : Cancel(p)
    \/ \E p \in Procs : SelectCtxDone(p)
    \/ \E p \in Procs : SelectCancelled(p)
    \/ \E p \in Procs : Log(p)
    \/ \E p \in Procs : Free(p)

CancelSpec == Init /\ [][CancelNext]_vars
(***************************************************************************)
(* The client of TestIntegration_FullTodoLifecycle: on a fresh server it   *)
(* sends six requests through the whole chain, each after it has received  *)
(* the response to the one before.                                         *)
(***************************************************************************)
LifePosts == {JSONBody(FALSE, 0, pl) : pl \in {q \in Payloads : q.title # ""}}
LifePuts == {b \in PutBodies : b.wellFormed /\ b.title # "" /\ b.completed}

LifeInit ==
    /\ Fresh
    /\ life \in {[NoLife EXCEPT !.on = TRUE, !.post = b, !.put = c] :
                    b \in LifePosts, c \in LifePuts}

\* The statuses the test expects, request by request.
ExpectedStatus ==
    <<StatusCreated, StatusOK, StatusOK, StatusOK, StatusNoContent, StatusNotFound>>
LifeLen == Len(ExpectedStatus)

Script(k) ==
    CASE k = 1 -> Request("/todos", "POST", <<>>, life.post)
      [] k = 2 -> Request("/todos/", "GET", <<"1">>, NoBody)
      [] k = 3 -> Request("/todos/", "PUT", <<"1">>, life.put)
      [] k = 4 -> Request("/todos", "GET", <<>>, NoBody)
      [] k = 5 -> Request("/todos/", "DELETE", <<"1">>, NoBody)
      [] OTHER -> Request("/todos/", "GET", <<"1">>, NoBody)

\* The next request of the scenario.  The test stops at the first response
\* whose status is not the expected one (t.Fatalf); a request whose two
\* goroutines have both ended has left the server.
LifeRequest(p) ==
    /\ life.on
    /\ life.step < LifeLen
    /\ Len(life.got) = life.step
    /\ \A k \in 1..Len(life.got) : life.got[k].code = ExpectedStatus[k]
    /\ \A q \in Procs : ~(mw[q].at = "logged" /\ pc[q] = "closed")
    /\ ServeHTTP(p, Script(life.step + 1))
    /\ life' = [life EXCEPT !.step = @ + 1]
    /\ UNCHANGED nreq

LifeNext ==
    \/ \E p \in Procs : LifeRequest(p)
    \/ \E p \in Procs : Mux(p)
    \/ \E p \in Procs : Lock(p)
    \/ \E p \in Procs : RLock(p)
    \/ \E p \in Procs : RepoCreate(p)
    \/ \E p \in Procs : RepoGetAll(p)
    \/ \E p \in Procs : RepoGetByID(p)
    \/ \E p \in Procs : RepoExists(p)
    \/ \E p \in Procs : RepoUpdate(p)
    \/ \E p \in Procs : RepoDelete(p)
    \/ \E p \in Procs : CloseDone(p)
    \/ \E p \in Procs : SelectDone(p)
    \/ \E p \in Procs : Deadline(p)
    \/ \E p \in Procs : SelectCtxDone(p)
    \/ \E p \in Procs : Log(p)
    \/ \E p \in Procs : Free(p)

LifeSpec == LifeInit /\ [][LifeNext]_vars

(***************************************************************************)
(* A caller of the repository in the same process, as the tests of the     *)
(* repository are: it passes *domain.Todo pointers in and gets pointers    *)
(* back.  Create and Update put the caller's pointer into the map, GetByID *)
(* and GetAll return the pointers of the map, so after each of them the    *)
(* caller holds a pointer to the very record the map holds under that key. *)
(***************************************************************************)
OwnTodos == {Todo(i, pl.title, pl.description, pl.completed) :
                i \in {0, 1, 2}, pl \in {q \in Payloads : q.title # ""}}
OwnKeys == {1, 2}

OwnIdle ==
    UNCHANGED <<mu, pc, handler, call, id, todo, resp, burst, req, mw, life, heap>>

OwnCreate ==
    /\ nreq < MaxOps
    /\ \E t \in OwnTodos :
          LET out == Create(repo, t)
          IN  /\ todos' = out.todos
              /\ nextID' = out.nextID
              /\ ref' = IF out.err = ErrNil THEN ref \cup {out.todo.ID} ELSE ref
              /\ lastWrite' = IF out.err = ErrNil
                              THEN Put(lastWrite, out.todo.ID, [kind |-> "create", todo |-> t])
                              ELSE lastWrite
              /\ autoIDs' = IF out.err = ErrNil /\ t.ID = 0
                            THEN autoIDs \cup {out.todo.ID} ELSE autoIDs
              /\ net' = IF out.err = ErrNil THEN net + 1 ELSE net
    /\ nreq' = nreq + 1
    /\ OwnIdle

OwnGetByID ==
    /\ nreq < MaxOps
    /\ \E k \in OwnKeys :
          ref' = IF GetByID(repo, k).err = ErrNil THEN ref \cup {k} ELSE ref
    /\ nreq' = nreq + 1
    /\ UNCHANGED <<todos, nextID, lastWrite, autoIDs, net>>
    /\ OwnIdle

OwnGetAll ==
    /\ nreq < MaxOps
    /\ ref' = ref \cup DOMAIN todos
    /\ nreq' = nreq + 1
    /\ UNCHANGED <<todos, nextID, lastWrite, autoIDs, net>>
    /\ OwnIdle

OwnUpdate ==
    /\ nreq < MaxOps
    /\ \E t \in OwnTodos :
          LET out == Update(repo, t)
          IN  /\ todos' = out.todos
              /\ ref' = IF out.err = ErrNil THEN ref \cup {t.ID} ELSE ref
              /\ lastWrite' = IF out.err = ErrNil
                              THEN Put(lastWrite, t.ID, [kind |-> "update", todo |-> t])
                              ELSE lastWrite
    /\ nreq' = nreq + 1
    /\ UNCHANGED <<nextID, autoIDs, net>>
    /\ OwnIdle

OwnDelete ==
    /\ nreq < MaxOps
    /\ \E k \in OwnKeys :
          LET out == Delete(repo, k)
          IN  /\ todos' = out.todos
              /\ ref' = IF out.err = ErrNil THEN ref \ {k} ELSE ref
              /\ lastWrite' = IF out.err = ErrNil
                              THEN Put(lastWrite, k, [kind |-> "delete", todo |-> ZeroTodo])
                              ELSE lastWrite
              /\ net' = IF out.err = ErrNil THEN net - 1 ELSE net
    /\ nreq' = nreq + 1
    /\ UNCHANGED <<nextID, autoIDs>>
    /\ OwnIdle

\* The caller assigns to fields of a record through a pointer it holds
\* (todo.Title = ..., todo.Completed = ...), with no call to the repository.
OwnMutate ==
    /\ nreq < MaxOps
    /\ \E k \in ref, pl \in Payloads :
          /\ todos[k].Title # pl.title \/ todos[k].Completed # pl.completed
          /\ todos' = [todos EXCEPT ![k].Title = pl.title, ![k].Completed = pl.completed]
    /\ nreq' = nreq + 1
    /\ UNCHANGED <<nextID, lastWrite, autoIDs, net, ref>>
    /\ OwnIdle

OwnNext ==
    \/ OwnCreate
    \/ OwnGetByID
    \/ OwnGetAll
    \/ OwnUpdate
    \/ OwnDelete
    \/ OwnMutate

OwnSpec == Init /\ [][OwnNext]_vars

(***************************************************************************)
(* Create statement by statement.  Under the lock Create first settles the *)
(* id (an id of 0 takes the counter, which is incremented; a supplied id   *)
(* is refused when occupied and raises the counter when it is at or above  *)
(* it) and then, in a second statement, stores the record.  StepSpec is    *)
(* Spec without the concurrent batch and with Create in these two steps,   *)
(* so that the state between them is a state of the model.                 *)
(***************************************************************************)
\* Lines 31-43: the id is settled and the counter moved, or the call returns
\* AlreadyExists through the deferred Unlock.
CreateAssign(p) ==
    /\ Held(p, "Create")
    /\ LET out == Create(repo, todo[p])
       IN  IF out.err = ErrNil
           THEN /\ nextID' = out.nextID
                /\ todo' = [todo EXCEPT ![p] = out.todo]
                /\ pc' = [pc EXCEPT ![p] = "Assigned"]
                /\ UNCHANGED <<mu, call, resp, mw>>
           ELSE /\ WriteResp(p, IF out.err = ErrTodoAlreadyExists
                                THEN respondWithError(StatusConflict, out.err)
                                ELSE respondWithError(StatusBadRequest, out.err))
                /\ Unlock
                /\ pc' = [pc EXCEPT ![p] = "done"]
                /\ call' = [call EXCEPT ![p] = "none"]
                /\ UNCHANGED <<nextID, todo>>
    /\ UNCHANGED <<todos, handler, id, nreq, burst, lastWrite, autoIDs, net, req,
                   life, ref, heap>>

\* Line 45 and the return: the record is stored, the deferred Unlock runs,
\* and the handler answers 201.
CreateStore(p) ==
    /\ pc[p] = "Assigned"
    /\ todos' = Put(todos, todo[p].ID, todo[p])
    /\ WriteResp(p, respondWithTodo(StatusCreated, todo[p]))
    /\ lastWrite' = Put(lastWrite, todo[p].ID,
                        [kind |-> "create", todo |-> Decode(req[p].body).todo])
    /\ autoIDs' = IF Decode(req[p].body).todo.ID = 0
                  THEN autoIDs \cup {todo[p].ID}
                  ELSE autoIDs
    /\ net' = net + 1
    /\ Unlock
    /\ pc' = [pc EXCEPT ![p] = "done"]
    /\ call' = [call EXCEPT ![p] = "none"]
    /\ UNCHANGED <<nextID, handler, id, todo, nreq, burst, req, life, ref, heap>>

StepNext ==
    \/ \E p \in Procs : HandleTodos(p)
    \/ \E p \in Procs : HandleTodoByID(p)
    \/ \E p \in Procs : Lock(p)
    \/ \E p \in Procs : RLock(p)
    \/ \E p \in Procs : CreateAssign(p)
    \/ \E p \in Procs : CreateStore(p)
    \/ \E p \in Procs : RepoGetAll(p)
    \/ \E p \in Procs : RepoGetByID(p)
    \/ \E p \in Procs : RepoExists(p)
    \/ \E p \in Procs : RepoUpdate(p)
    \/ \E p \in Procs : RepoDelete(p)
    \/ \E p \in Procs : Return(p)

StepSpec == Init /\ [][StepNext]_vars

(***************************************************************************)
(* FairSpec: StepSpec with the scheduling the Go runtime gives.  A         *)
(* goroutine that can run is run: one inside a repository method goes on   *)
(* to its next statement and its deferred unlock, and one waiting in Lock  *)
(* or RLock is let in when the mutex stays free for it.  Nothing is        *)
(* assumed about when clients send requests.                               *)
(***************************************************************************)
Fairness ==
    \A p \in Procs :
        /\ WF_vars(Lock(p))
        /\ WF_vars(RLock(p))
        /\ WF_vars(CreateAssign(p))
        /\ WF_vars(CreateStore(p))
        /\ WF_vars(RepoGetAll(p))
        /\ WF_vars(RepoGetByID(p))
        /\ WF_vars(RepoExists(p))
        /\ WF_vars(RepoUpdate(p))
        /\ WF_vars(RepoDelete(p))

FairSpec == StepSpec /\ Fairness

(***************************************************************************)
(* The handlers with their Todo objects.  The map holds pointers: Create   *)
(* and Update store the pointer they are given, GetByID hands out the      *)
(* pointer the map holds, and the handler GetTodoByID encodes the object   *)
(* behind it after GetByID has released the mutex.  In PtrSpec every       *)
(* assignment goes to an object of heap.obj, and the records of todos and  *)
(* the handlers' todo are what those objects hold.                         *)
(***************************************************************************)
\* The records of the map, read through its pointers.
StoreView(h) == [k \in DOMAIN h.key |-> h.obj[h.key[k]]]

PtrRequests ==
    {Request("/todos", "POST", <<>>, JSONBody(FALSE, 0, pl)) : pl \in Payloads}
    \cup {Request("/todos/", "PUT", <<"1">>, b) : b \in PutBodies}
    \cup {Request("/todos/", m, <<"1">>, NoBody) : m \in {"GET", "DELETE"}}

\* A handler takes up a request; CreateTodo and UpdateTodo declare their
\* var todo domain.Todo, a new object, and decode the body into it.
PtrServe(p) ==
    /\ pc[p] = "idle"
    /\ nreq < MaxOps
    /\ \E r \in PtrRequests :
          /\ req' = [req EXCEPT ![p] = r]
          /\ IF r.route = "/todos" THEN ServeTodos(p, r) ELSE ServeTodoByID(p, r)
          /\ heap' = IF r.method \in {"POST", "PUT"}
                     THEN [heap EXCEPT !.obj = Append(@, Decode(r.body).todo),
                                       !.loc[p] = Len(heap.obj) + 1]
                     ELSE heap
    /\ nreq' = nreq + 1
    /\ UNCHANGED <<todos, nextID, mu, burst, lastWrite, autoIDs, net, life, ref>>

\* Create: todo.ID = r.nextID assigns through the pointer, and
\* r.todos[todo.ID] = todo stores the pointer.
PtrCreate(p) ==
    /\ Held(p, "Create")
    /\ LET out == Create(repo, todo[p])
           o == heap.loc[p]
           h == [heap EXCEPT !.obj[o] = out.todo,
                             !.key = IF out.err = ErrNil THEN Put(@, out.todo.ID, o) ELSE @]
       IN  /\ heap' = h
           /\ todos' = StoreView(h)
           /\ nextID' = out.nextID
           /\ todo' = [todo EXCEPT ![p] = h.obj[o]]
           /\ WriteResp(p, IF out.err = ErrNil
                           THEN respondWithTodo(StatusCreated, h.obj[o])
                           ELSE IF out.err = ErrTodoAlreadyExists
                           THEN respondWithError(StatusConflict, out.err)
                           ELSE respondWithError(StatusBadRequest, out.err))
    /\ Unlock
    /\ pc' = [pc EXCEPT ![p] = "done"]
    /\ call' = [call EXCEPT ![p] = "none"]
    /\ UNCHANGED <<handler, id, nreq, burst, lastWrite, autoIDs, net, req, life, ref>>

\* GetByID returns the pointer the map holds and releases the mutex.
PtrGetByID(p) ==
    /\ Held(p, "GetByID")
    /\ LET out == GetByID(repo, id[p])
       IN  IF out.err = ErrNil
           THEN /\ heap' = [heap EXCEPT !.got[p] = heap.key[id[p]], !.seen[p] = out.todo]
                /\ pc' = [pc EXCEPT ![p] = "Encode"]
                /\ UNCHANGED <<call, resp, mw>>
           ELSE /\ WriteResp(p, respondWithError(StatusNotFound, "Todo not found"))
                /\ pc' = [pc EXCEPT ![p] = "done"]
                /\ call' = [call EXCEPT ![p] = "none"]
                /\ UNCHANGED heap
    /\ RUnlock(p)
    /\ UNCHANGED <<todos, nextID, handler, id, todo, nreq, burst, lastWrite, autoIDs,
                   net, req, life, ref>>

\* respondWithJSON(w, 200, todo): the handler encodes the object it was
\* handed, as it is now.
PtrEncode(p) ==
    /\ pc[p] = "Encode"
    /\ WriteResp(p, respondWithTodo(StatusOK, heap.obj[heap.got[p]]))
    /\ pc' = [pc EXCEPT ![p] = "done"]
    /\ call' = [call EXCEPT ![p] = "none"]
    /\ UNCHANGED <<todos, nextID, mu, handler, id, todo, nreq, burst, lastWrite,
                   autoIDs, net, req, life, ref, heap>>

\* UpdateTodo's existence check, and todo.ID = id through the pointer.
PtrExists(p) ==
    /\ Held(p, "Exists")
    /\ RUnlock(p)
    /\ IF Exists(repo, id[p])
       THEN LET o == heap.loc[p]
                h == [heap EXCEPT !.obj[o] = SetID(@, id[p])]
            IN  /\ heap' = h
                /\ todos' = StoreView(h)
                /\ todo' = [todo EXCEPT ![p] = h.obj[o]]
                /\ call' = [call EXCEPT ![p] = "Update"]
                /\ pc' = [pc EXCEPT ![p] = "Lock"]
                /\ UNCHANGED <<resp, mw>>
       ELSE /\ WriteResp(p, respondWithError(StatusNotFound, "Todo not found"))
            /\ call' = [call EXCEPT ![p] = "none"]
            /\ pc' = [pc EXCEPT ![p] = "done"]
            /\ UNCHANGED <<todos, todo, heap>>
    /\ UNCHANGED <<nextID, handler, id, nreq, burst, lastWrite, autoIDs, net, req,
                   life, ref>>

\* Update that copies the fields into the object the map holds.
PtrUpdateInPlace(p) ==
    /\ Held(p, "Update")
    /\ LET out == Update(repo, todo[p])
           h == IF out.err = ErrNil
                THEN [heap EXCEPT !.obj[heap.key[todo[p].ID]] = todo[p]]
                ELSE heap
       IN  /\ heap' = h
           /\ todos' = StoreView(h)
           /\ WriteResp(p, IF out.err = ErrNil
                           THEN respondWithTodo(StatusOK, todo[p])
                           ELSE respondWithError(StatusNotFound, "Todo not found"))
    /\ Unlock
    /\ pc' = [pc EXCEPT ![p] = "done"]
    /\ call' = [call EXCEPT ![p] = "none"]
    /\ UNCHANGED <<nextID, handler, id, todo, nreq, burst, lastWrite, autoIDs, net,
                   req, life, ref>>

\* Update: r.todos[todo.ID] = todo puts the pointer it was given in the
\* place of the one the map held.
PtrUpdate(p) ==
    /\ Held(p, "Update")
    /\ LET out == Update(repo, todo[p])
           h == IF out.err = ErrNil
                THEN [heap EXCEPT !.key = Put(@, todo[p].ID, heap.loc[p])]
                ELSE heap
       IN  /\ heap' = h
           /\ todos' = StoreView(h)
           /\ WriteResp(p, IF out.err = ErrNil
                           THEN respondWithTodo(StatusOK, h.obj[heap.loc[p]])
                           ELSE IF out.err = ErrTodoNotFound
                           THEN respondWithError(StatusNotFound, "Todo not found")
                           ELSE respondWithError(StatusBadRequest, out.err))
    /\ Unlock
    /\ pc' = [pc EXCEPT ![p] = "done"]
    /\ call' = [call EXCEPT ![p] = "none"]
    /\ UNCHANGED <<nextID, handler, id, todo, nreq, burst, lastWrite, autoIDs, net,
                   req, life, ref>>

\* Delete takes the pointer out of the map.
PtrDelete(p) ==
    /\ Held(p, "Delete")
    /\ LET out == Delete(repo, id[p])
           h == IF out.err = ErrNil THEN [heap EXCEPT !.key = Remove(@, id[p])] ELSE heap
       IN  /\ heap' = h
           /\ todos' = StoreView(h)
           /\ WriteResp(p, IF out.err = ErrNil
                           THEN respondNoContent
                           ELSE IF out.err = ErrTodoNotFound
                           THEN respondWithError(StatusNotFound, "Todo not found")
                           ELSE respondWithError(StatusInternalServerError,
                                                 "Failed to delete todo"))
    /\ Unlock
    /\ pc' = [pc EXCEPT ![p] = "done"]
    /\ call' = [call EXCEPT ![p] = "none"]
    /\ UNCHANGED <<nextID, handler, id, todo, nreq, burst, lastWrite, autoIDs, net,
                   req, life, ref>>

\* The handler returns; its pointers go with it, the objects stay.
PtrReturn(p) ==
    /\ pc[p] = "done"
    /\ pc' = [pc EXCEPT ![p] = "idle"]
    /\ handler' = [handler EXCEPT ![p] = "none"]
    /\ id' = [id EXCEPT ![p] = 0]
    /\ todo' = [todo EXCEPT ![p] = ZeroTodo]
    /\ resp' = [resp EXCEPT ![p] = NoResp]
    /\ req' = [req EXCEPT ![p] = NoReq]
    /\ heap' = [heap EXCEPT !.loc[p] = 0, !.got[p] = 0, !.seen[p] = ZeroTodo]
    /\ UNCHANGED <<todos, nextID, mu, call, nreq, burst, lastWrite, autoIDs,
                   net, mw, life, ref>>

PtrNext ==
    \/ \E p \in Procs : PtrServe(p)
    \/ \E p \in Procs : Lock(p)
    \/ \E p \in Procs : RLock(p)
    \/ \E p \in Procs : PtrCreate(p)
    \/ \E p \in Procs : PtrGetByID(p)
    \/ \E p \in Procs : PtrEncode(p)
    \/ \E p \in Procs : PtrExists(p)
    \/ \E p \in Procs : PtrUpdate(p)
    \/ \E p \in Procs : PtrDelete(p)
    \/ \E p \in Procs : PtrReturn(p)

PtrSpec == Init /\ [][PtrNext]_vars

(***************************************************************************)
(* A caller of the Operation Layer in the same process, as the tests of    *)
(* the use cases are.  CreateTodo and UpdateTodo take a *domain.Todo and   *)
(* return the same pointer, so the caller holds a pointer to every object  *)
(* it has passed in; a call is given a new object or one of those, but not *)
(* an object another call is using at that moment.  LayerSpec is these     *)
(* calls, from any number of goroutines, on the repository of PtrSpec.     *)
(***************************************************************************)
LayerTodos == {Todo(i, pl.title, pl.description, pl.completed) :
                  i \in {0, 2}, pl \in Payloads}
LayerIDs == {1, 2}

\* The objects the calls in progress were given.
InUse == {heap.loc[q] : q \in Procs} \ {0}

LayerCall(p) ==
    /\ pc[p] = "idle"
    /\ nreq < MaxOps
    /\ \/ \E i \in LayerIDs :
             /\ CallRepo(p, "DeleteTodo", "Delete", i, ZeroTodo)
             /\ UNCHANGED heap
       \/ \E c \in {"CreateTodo", "UpdateTodo"}, i \in LayerIDs, t \in LayerTodos :
          \E o \in (1..(Len(heap.obj) + 1)) \ InUse :
             LET h == IF o > Len(heap.obj)
                      THEN [heap EXCEPT !.obj = Append(@, t), !.loc[p] = o]
                      ELSE [heap EXCEPT !.loc[p] = o]
                 arg == h.obj[o]
                 n == IF c = "CreateTodo" THEN 0 ELSE i
             IN  /\ heap' = h
                 /\ IF Validate(arg) # ErrNil
                    THEN Respond(p, c, n, arg, respondWithError(StatusBadRequest, Validate(arg)))
                    ELSE CallRepo(p, c, IF c = "CreateTodo" THEN "Create" ELSE "Exists", n, arg)
    /\ nreq' = nreq + 1
    /\ UNCHANGED <<todos, nextID, mu, burst, lastWrite, autoIDs, net, req, life, ref>>

LayerNext ==
    \/ \E p \in Procs : LayerCall(p)
    \/ \E p \in Procs : Lock(p)
    \/ \E p \in Procs : RLock(p)
    \/ \E p \in Procs : PtrCreate(p)
    \/ \E p \in Procs : PtrExists(p)
    \/ \E p \in Procs : PtrUpdate(p)
    \/ \E p \in Procs : PtrDelete(p)
    \/ \E p \in Procs : PtrReturn(p)

LayerSpec == Init /\ [][LayerNext]_vars

(***************************************************************************)
(* Steps of the repository methods, for the properties below.              *)
(***************************************************************************)
\* Goroutine p runs the body of repository method c in this step.
Runs(p, c) == Held(p, c) /\ pc'[p] \in {"done", "Lock"}

\* The ids successful Creates have returned so far.
Assigned == DOMAIN lastWrite

\* The store is left as it was.
StoreUnchanged == todos' = todos /\ nextID' = nextID

(***************************************************************************)
(* C1.  N concurrent Creates without an id, with nothing else running:     *)
(* every one succeeds, the N ids are pairwise distinct, and GetAll after   *)
(* the last of them has answered returns exactly N more records than the   *)
(* store held before the first.                                            *)
(***************************************************************************)
C1_ConcurrentCreates ==
    BurstDone =>
        /\ \A p \in Procs : resp[p].code = StatusCreated
        /\ \A p, q \in Procs : p # q => resp[p].todo.ID # resp[q].todo.ID
        /\ \A ts \in GetAll(repo) : Len(ts) = burst.before + NumProcs

(***************************************************************************)
(* C2.  Auto-assigned ids are strictly increasing: the first Create on a   *)
(* fresh store, when it carries no id, gets id 1, and every successful     *)
(* Create without an id gets an id greater than every id the allocator     *)
(* handed out before.                                                      *)
(***************************************************************************)
C2_AutoIDsIncrease ==
    [][\A p \in Procs :
          (Runs(p, "Create") /\ todo[p].ID = 0 /\ resp'[p].code = StatusCreated)
          => /\ \A a \in autoIDs : resp'[p].todo.ID > a
             /\ Assigned = {} => resp'[p].todo.ID = 1]_vars

(***************************************************************************)
(* C3.  The ids of successful Creates are pairwise distinct over the whole *)
(* history: a successful Create never returns an id that an earlier        *)
(* successful Create returned, whether or not that record was deleted.     *)
(***************************************************************************)
C3_IDsNeverReused ==
    [][\A p \in Procs :
          (Runs(p, "Create") /\ resp'[p].code = StatusCreated)
          => resp'[p].todo.ID \notin Assigned]_vars

(***************************************************************************)
(* C4.  No record is stored under id 0 and no stored record carries id 0.  *)
(***************************************************************************)
C4_NoZeroID ==
    /\ 0 \notin DOMAIN todos
    /\ \A k \in DOMAIN todos : todos[k].ID # 0

(***************************************************************************)
(* C5.  The allocator counter is strictly greater than every id in the     *)
(* store, so a Create without an id never gets an occupied id and never    *)
(* overwrites a record.                                                    *)
(***************************************************************************)
C5_CounterAboveStore ==
    [][/\ \A k \in DOMAIN todos' : k < nextID'
       /\ \A p \in Procs :
             (Runs(p, "Create") /\ todo[p].ID = 0)
             => /\ resp'[p].todo.ID \notin DOMAIN todos
                /\ \A k \in DOMAIN todos : todos'[k] = todos[k]]_vars

(***************************************************************************)
(* C6.  A Create with a non-zero id that is occupied fails with            *)
(* AlreadyExists, which reaches the client unchanged as a 409, and has no  *)
(* side effect: every record and the allocator counter stay as they were.  *)
(***************************************************************************)
C6_ConflictNoSideEffect ==
    [][\A p \in Procs :
          (Runs(p, "Create") /\ todo[p].ID # 0 /\ todo[p].ID \in DOMAIN todos)
          => /\ resp'[p] = respondWithError(StatusConflict, ErrTodoAlreadyExists)
             /\ StoreUnchanged]_vars

C6_Witness ==
    \E p \in Procs :
        /\ pc[p] = "done" /\ handler[p] = "CreateTodo"
        /\ resp[p].code = StatusConflict
        /\ todo[p].ID \in DOMAIN todos
        /\ todos[todo[p].ID].Title # todo[p].Title

(***************************************************************************)
(* C7.  Round trip: GetByID on an id whose last write was a successful     *)
(* Create returns a record with the title, description and completed flag  *)
(* that Create was given, and with the assigned id.                        *)
(***************************************************************************)
C7_RoundTrip ==
    [][\A p \in Procs :
          (Runs(p, "GetByID") /\ id[p] \in Assigned /\ lastWrite[id[p]].kind = "create")
          => resp'[p] = respondWithTodo(StatusOK,
                            [lastWrite[id[p]].todo EXCEPT !.ID = id[p]])]_vars

C7_Witness ==
    \E p \in Procs :
        /\ pc[p] = "done" /\ handler[p] = "GetTodoByID"
        /\ resp[p].code = StatusOK
        /\ id[p] \in Assigned
        /\ lastWrite[id[p]].kind = "create"
        /\ lastWrite[id[p]].todo.ID = 0
        /\ resp[p].todo.ID = id[p]
        /\ resp[p].todo.Title = lastWrite[id[p]].todo.Title

(***************************************************************************)
(* C8.  Not-found consistency: GetByID, Update, Delete and UpdateTodo's    *)
(* Exists on an id that is not in the store fail with NotFound (a 404) and *)
(* leave the records and the allocator counter unchanged.                  *)
(***************************************************************************)
NotFoundResp == respondWithError(StatusNotFound, "Todo not found")

C8_NotFound ==
    [][\A p \in Procs :
          /\ (Runs(p, "GetByID") /\ id[p] \notin DOMAIN todos)
             => (resp'[p] = NotFoundResp /\ StoreUnchanged)
          /\ (Runs(p, "Delete") /\ id[p] \notin DOMAIN todos)
             => (resp'[p] = NotFoundResp /\ StoreUnchanged)
          /\ (Runs(p, "Update") /\ todo[p].ID \notin DOMAIN todos)
             => (resp'[p] = NotFoundResp /\ StoreUnchanged)
          /\ (Runs(p, "Exists") /\ id[p] \notin DOMAIN todos)
             => (resp'[p] = NotFoundResp /\ pc'[p] = "done" /\ StoreUnchanged)]_vars

\* An UpdateTodo answered 404 for an id that was deleted, and a racing Update
\* that found its id gone after Exists had seen it.
C8_Witness ==
    \E p \in Procs :
        /\ pc[p] = "done" /\ handler[p] = "UpdateTodo"
        /\ resp[p] = NotFoundResp
        /\ todo[p].ID = id[p]
        /\ id[p] \in Assigned
        /\ lastWrite[id[p]].kind = "delete"

(***************************************************************************)
(* C9.  After a successful Delete of an id, and until a Create inserts the *)
(* id again, the record is absent: GetByID and a second Delete of the id   *)
(* fail with NotFound.                                                     *)
(***************************************************************************)
Deleted(k) == k \in Assigned /\ lastWrite[k].kind = "delete"
Creates(k) ==
    \E p \in Procs :
        Runs(p, "Create") /\ resp'[p].code = StatusCreated /\ resp'[p].todo.ID = k

C9_DeletedStaysAbsent ==
    [][\A k \in Ints :
          /\ (\E p \in Procs :
                 Runs(p, "Delete") /\ id[p] = k /\ resp'[p].code = StatusNoContent)
             => k \notin DOMAIN todos'
          /\ (Deleted(k) /\ ~Creates(k))
             => /\ k \notin DOMAIN todos'
                /\ \A p \in Procs :
                      ((Runs(p, "GetByID") \/ Runs(p, "Delete")) /\ id[p] = k)
                      => resp'[p] = NotFoundResp]_vars

C9_Witness ==
    \E p \in Procs :
        /\ pc[p] = "done" /\ handler[p] = "DeleteTodo"
        /\ resp[p] = NotFoundResp
        /\ Deleted(id[p])

(***************************************************************************)
(* C10.  Validation gate: a CreateTodo or an UpdateTodo with an empty      *)
(* title is answered 400 and never calls the repository: the records, the  *)
(* allocator counter and the lock are untouched.                           *)
(***************************************************************************)
EmptyTitle(p) == handler[p] \in {"CreateTodo", "UpdateTodo"} /\ todo[p].Title = ""

C10_ValidationGate ==
    [][\A p \in Procs :
          /\ EmptyTitle(p)' => (pc'[p] = "done" /\ call'[p] = "none"
                                /\ resp'[p].code = StatusBadRequest)
          /\ (pc[p] = "idle" /\ EmptyTitle(p)') => (StoreUnchanged /\ mu' = mu)]_vars

C10_Witness ==
    \E p, q \in Procs :
        /\ pc[p] = "done" /\ handler[p] = "CreateTodo" /\ todo[p].Title = ""
        /\ todo[p].Description # ""
        /\ resp[p] = respondWithError(StatusBadRequest, ErrEmptyTitle)
        /\ pc[q] = "done" /\ handler[q] = "UpdateTodo" /\ todo[q].Title = ""
        /\ id[q] \in DOMAIN todos
        /\ resp[q] = respondWithError(StatusBadRequest, ErrEmptyTitle)

(***************************************************************************)
(* C11.  A successful UpdateTodo(id, todo) replaces the whole record at    *)
(* the path's id: GetByID(id) then returns the payload's title,            *)
(* description and completed flag with the path's id, whatever id the      *)
(* payload carried; every other key, the payload's id among them, keeps    *)
(* its record or its absence, and the number of records is unchanged.      *)
(***************************************************************************)
Payload(p) == Decode(req[p].body).todo

C12_PanicRecovered ==
    [][\A p \in Procs :
          Panic(p) => /\ mw'[p].sent.code = StatusInternalServerError
                      /\ ~Exited']_vars

(***************************************************************************)
(* C13.  The status Logging records for a request is the status the client *)
(* was sent, also when both the handler and Timeout set a status and when  *)
(* the handler writes a body without setting a status.                     *)
(***************************************************************************)
C13_LoggedIsSent ==
    \A p \in Procs : mw[p].at = "logged" => mw[p].logged = mw[p].sent.code

TimedOut(p) ==
    mw[p].at \in {"returned", "logged"} /\ mw[p].sent.code = StatusRequestTimeout

C15_AbandonedWorkTakesEffect ==
    [][\A p \in Procs :
          (TimedOut(p) /\ Runs(p, "Create") /\ todo[p].ID = 0)
          => /\ resp'[p].code = StatusCreated
             /\ resp'[p].todo.ID = nextID
             /\ nextID \in DOMAIN todos'
             /\ todos'[nextID] = [todo[p] EXCEPT !.ID = nextID]
             /\ nextID' = Wrap(nextID + 1)
             /\ mw'[p].sent.code = StatusRequestTimeout]_vars

\* The client was answered 408, and the record of its POST is in the store.
C15_Witness ==
    \E p \in Procs :
        /\ TimedOut(p)
        /\ mw[p].at = "logged"
        /\ pc[p] = "closed" /\ handler[p] = "CreateTodo"
        /\ resp[p].code = StatusCreated
        /\ resp[p].todo.ID \in DOMAIN todos
        /\ todos[resp[p].todo.ID] = resp[p].todo

(***************************************************************************)
(* C16.  An UpdateTodo and a DeleteTodo racing on one id are serialized:   *)
(* they never hold the lock together; the Delete succeeds whenever it      *)
(* finds the record, whether or not the Update ran first, and removes it;  *)
(* the Update succeeds when it finds the record and answers NotFound when  *)
(* the Delete came first, and then it does not insert the record again.    *)
(***************************************************************************)
Racing(p, q) ==
    /\ p # q
    /\ handler[p] = "UpdateTodo" /\ handler[q] = "DeleteTodo"
    /\ pc[p] # "idle" /\ pc[q] # "idle"
    /\ id[p] = id[q]

C16_UpdateDeleteRace ==
    [][\A p, q \in Procs :
          Racing(p, q)
          => /\ ~(Held(p, "Update") /\ Held(q, "Delete"))
             /\ (Runs(q, "Delete") /\ id[q] \in DOMAIN todos)
                => (resp'[q] = respondNoContent /\ id[q] \notin DOMAIN todos')
             /\ (Runs(p, "Update") /\ id[p] \in DOMAIN todos)
                => (resp'[p].code = StatusOK /\ id[p] \in DOMAIN todos')
             /\ ((Runs(p, "Update") \/ Runs(p, "Exists")) /\ id[p] \notin DOMAIN todos)
                => (resp'[p] = NotFoundResp /\ todos' = todos)]_vars

\* The Delete ran between the Update's existence check and its write: the
\* Delete succeeded, the Update answered NotFound, the record is absent.
C16_Witness ==
    \E p, q \in Procs :
        /\ Racing(p, q)
        /\ pc[p] = "done" /\ pc[q] = "done"
        /\ todo[p].ID = id[p] /\ ~req[p].body.hasID
        /\ resp[p] = NotFoundResp
        /\ resp[q] = respondNoContent
        /\ id[p] \notin DOMAIN todos

(***************************************************************************)
(* C17.  The store alone owns its records: a stored record changes only in *)
(* a Create, an Update or a Delete; when a caller assigns to a record it   *)
(* passed to Create or got from Create, GetByID or GetAll, and does not    *)
(* call Update, GetByID and GetAll return afterwards what they returned    *)
(* before.                                                                 *)
(***************************************************************************)
C17_StoreOwnsRecords ==
    [][/\ todos' # todos => (OwnCreate \/ OwnUpdate \/ OwnDelete)
       /\ OwnMutate => /\ \A k \in Ints : GetByID(repo, k)' = GetByID(repo, k)
                       /\ GetAll(repo)' = GetAll(repo)]_vars

(***************************************************************************)
(* C18.  The lifecycle on a fresh store, request after request through the *)
(* whole chain, every request answered before its deadline: the POST of a  *)
(* valid title without an id is answered 201 with id 1 and the posted      *)
(* fields; GET /todos/1 200 with the same record; the PUT to /todos/1 with *)
(* completed = true 200 with the payload under id 1; GET /todos 200 with   *)
(* exactly that one record; DELETE /todos/1 204 without a body; and the    *)
(* last GET /todos/1 404.                                                  *)
(***************************************************************************)
Body(r) == [r EXCEPT !.code = 0]
Posted == Todo(1, life.post.title, life.post.description, life.post.completed)
Updated == Todo(1, life.put.title, life.put.description, life.put.completed)

Expected(k) ==
    CASE k = 1 -> [code |-> StatusCreated, body |-> <<Body(respondWithTodo(0, Posted))>>]
      [] k = 2 -> [code |-> StatusOK, body |-> <<Body(respondWithTodo(0, Posted))>>]
      [] k = 3 -> [code |-> StatusOK, body |-> <<Body(respondWithTodo(0, Updated))>>]
      [] k = 4 -> [code |-> StatusOK, body |-> <<Body(respondWithTodos(0, <<Updated>>))>>]
      [] k = 5 -> [code |-> StatusNoContent, body |-> <<>>]
      [] OTHER -> [code |-> StatusNotFound,
                   body |-> <<Body(respondWithError(0, "Todo not found"))>>]

C18_Lifecycle ==
    (life.on /\ ~life.late) => \A k \in 1..Len(life.got) : life.got[k] = Expected(k)

\* All six responses have arrived, none of them late; the PUT carried id 2
\* in its body.
C18_Witness ==
    /\ life.on /\ ~life.late
    /\ Len(life.got) = LifeLen
    /\ life.put.hasID
    /\ life.got[3].body[1].todo.Completed
    /\ life.got[6].code = StatusNotFound
    /\ todos = EmptyMap

(***************************************************************************)
(* C19.  GetAll returns exactly the records of the store, one entry per    *)
(* stored id with no duplicate and no omission, so that its length is the  *)
(* number of successful Creates minus the number of successful Deletes; on *)
(* an empty store it is the empty sequence.                                *)
(***************************************************************************)
C19_GetAllSnapshot ==
    \A ts \in GetAll(repo) :
        /\ \A k \in DOMAIN todos : \E i \in 1..Len(ts) : ts[i] = todos[k]
        /\ \A i, j \in 1..Len(ts) : ts[i].ID = ts[j].ID => i = j
        /\ Len(ts) = Cardinality(DOMAIN todos)
        /\ Len(ts) = net
        /\ DOMAIN todos = {} => ts = <<>>

(***************************************************************************)
(* C20.  Every stored record has a positive id: no record is stored under  *)
(* a key that is zero or negative, whatever ids the Creates supplied.      *)
(***************************************************************************)
C20_PositiveIDs ==
    \A k \in DOMAIN todos : k > 0 /\ todos[k].ID > 0

(***************************************************************************)
(* C21.  Unsupported methods are rejected without touching the store: on   *)
(* /todos every method other than POST and GET, and on /todos/{id} with an *)
(* id that parses every method other than GET, PUT and DELETE, is answered *)
(* 405 by the handler itself, with no repository call; the records, the    *)
(* allocator counter and the lock stay as they were.                       *)
(***************************************************************************)
\* Goroutine p takes up a request in this step.
Serves(p) == req[p] = NoReq /\ req'[p] # NoReq /\ pc'[p] \in {"Lock", "done"}

Unsupported(r) ==
    \/ r.route = "/todos" /\ r.method \notin {"POST", "GET"}
    \/ /\ r.route = "/todos/"
       /\ ~extractIDFromPath(PathParts(r.seg)).err
       /\ r.method \notin {"GET", "PUT", "DELETE"}

MethodNotAllowed == respondWithError(StatusMethodNotAllowed, "Method not allowed")

C21_MethodNotAllowed ==
    [][\A p \in Procs :
          (Serves(p) /\ Unsupported(req'[p]))
          => /\ resp'[p] = MethodNotAllowed
             /\ pc'[p] = "done" /\ call'[p] = "none"
             /\ StoreUnchanged /\ mu' = mu]_vars

\* A DELETE on /todos and a PATCH on /todos/1 were answered 405 and the
\* record under 1 is still there.
C21_Witness ==
    \E p, q \in Procs :
        /\ pc[p] = "done" /\ req[p].route = "/todos" /\ req[p].method = "DELETE"
        /\ resp[p] = MethodNotAllowed
        /\ pc[q] = "done" /\ req[q].route = "/todos/" /\ req[q].method = "PATCH"
        /\ req[q].seg = <<"1">>
        /\ resp[q] = MethodNotAllowed
        /\ 1 \in DOMAIN todos

(***************************************************************************)
(* C22.  On the item route a path whose segment after /todos/ is missing   *)
(* or is not an integer is answered 400 whatever the method, by the        *)
(* handler itself with no repository call, so the store is unchanged.      *)
(***************************************************************************)
\* The segment is an integer in decimal: an optional sign, then digits.
IsInteger(seg) ==
    LET ds == IF seg # <<>> /\ seg[1] \in {"-", "+"} THEN Tail(seg) ELSE seg
    IN  ds # <<>> /\ \A i \in 1..Len(ds) : IsDigit(ds[i])

InvalidID == respondWithError(StatusBadRequest, "Invalid todo ID")

C22_BadPathID ==
    [][\A p \in Procs :
          (Serves(p) /\ req'[p].route = "/todos/" /\ ~IsInteger(req'[p].seg))
          => /\ resp'[p] = InvalidID
             /\ pc'[p] = "done" /\ call'[p] = "none"
             /\ StoreUnchanged /\ mu' = mu]_vars

\* A DELETE with no segment and a PUT of a valid body on /todos/a were
\* answered 400 with a record in the store.
C22_Witness ==
    \E p, q \in Procs :
        /\ pc[p] = "done" /\ req[p].route = "/todos/" /\ req[p].method = "DELETE"
        /\ req[p].seg = <<>> /\ resp[p] = InvalidID
        /\ pc[q] = "done" /\ req[q].route = "/todos/" /\ req[q].method = "PUT"
        /\ req[q].seg = <<"a">> /\ req[q].body.title # ""
        /\ resp[q] = InvalidID
        /\ todos # EmptyMap

(***************************************************************************)
(* The use cases run from call to return on store r with nothing in        *)
(* between: the outcome, the store they leave and, for a retry, the store  *)
(* of an outcome.                                                          *)
(***************************************************************************)
CreateTodo(r, t) ==
    IF Validate(t) # ErrNil
    THEN [err |-> Validate(t), todo |-> ZeroTodo, todos |-> r.todos, nextID |-> r.nextID]
    ELSE LET out == Create(r, t)
         IN  [err |-> out.err, todo |-> IF out.err = ErrNil THEN out.todo ELSE ZeroTodo,
              todos |-> out.todos, nextID |-> out.nextID]

UpdateTodo(r, i, t) ==
    IF Validate(t) # ErrNil
    THEN [err |-> Validate(t), todo |-> ZeroTodo, todos |-> r.todos, nextID |-> r.nextID]
    ELSE IF ~Exists(r, i)
    THEN [err |-> ErrTodoNotFound, todo |-> ZeroTodo, todos |-> r.todos, nextID |-> r.nextID]
    ELSE LET out == Update(r, SetID(t, i))
         IN  [err |-> out.err, todo |-> IF out.err = ErrNil THEN SetID(t, i) ELSE ZeroTodo,
              todos |-> out.todos, nextID |-> r.nextID]

StoreOf(out) == [todos |-> out.todos, nextID |-> out.nextID]

(***************************************************************************)
(* C23.  Retry safety, on every store the program reaches: a successful    *)
(* UpdateTodo(id, todo) repeated with the same arguments returns the same  *)
(* result and leaves the store as the first call left it; a Create refused *)
(* for an occupied id is refused again and the store stays as it was; a    *)
(* Create without an id repeated adds one more record each time, under an  *)
(* id that was not in the store and differs from the one before.           *)
(***************************************************************************)
RetryIDs == DOMAIN todos \cup {1, 2}
RetryTodos == {Decode(b).todo : b \in Bodies}
Size(r) == Cardinality(DOMAIN r.todos)

UpdateRetry ==
    \A t \in RetryTodos, i \in RetryIDs :
        LET once == UpdateTodo(repo, i, t)
            twice == UpdateTodo(StoreOf(once), i, t)
        IN  once.err = ErrNil => twice = once

RefusedCreateRetry ==
    \A t \in RetryTodos :
        LET once == CreateTodo(repo, t)
            twice == CreateTodo(StoreOf(once), t)
        IN  (t.ID # 0 /\ once.err = ErrTodoAlreadyExists)
            => (StoreOf(once) = repo /\ twice = once)

AutoCreateRetry ==
    \A t \in RetryTodos :
        LET once == CreateTodo(repo, t)
            twice == CreateTodo(StoreOf(once), t)
        IN  (t.ID = 0 /\ once.err = ErrNil)
            => /\ twice.err = ErrNil
               /\ once.todo.ID \notin DOMAIN todos
               /\ twice.todo.ID \notin DOMAIN once.todos
               /\ Size(once) = Size(repo) + 1
               /\ Size(twice) = Size(repo) + 2

C23_RetrySafety == UpdateRetry /\ RefusedCreateRetry /\ AutoCreateRetry

(***************************************************************************)
(* C24.  The map and the allocator counter change as one unit.  A Create   *)
(* that has taken its id from the counter and has not yet stored the       *)
(* record holds the mutex as its writer, and no other goroutine is inside  *)
(* a repository method then, so no GetAll, GetByID, Exists or write sees   *)
(* that state; and no write is inside a repository method while a reader   *)
(* or another writer holds the mutex.                                      *)
(***************************************************************************)
\* Goroutine p is inside a repository method, between its Lock or RLock and
\* its deferred unlock.
Inside(p) == pc[p] \in {"Locked", "Assigned"}
Writing(p) == Inside(p) /\ call[p] \in WriteCalls

C24_AtomicCreate ==
    /\ \A p \in Procs :
          pc[p] = "Assigned" => (mu.w = p /\ \A q \in Procs \ {p} : ~Inside(q))
    /\ \A p \in Procs :
          Writing(p) => (mu = [w |-> p, r |-> {}] /\ \A q \in Procs \ {p} : ~Inside(q))
    /\ \A p \in Procs : (Inside(p) /\ call[p] \in ReadCalls) => (p \in mu.r /\ mu.w = 0)

\* A Create without an id has taken id 2 from the counter and not yet stored
\* the record, and a GetAll is waiting for the mutex.
C24_Witness ==
    \E p, q \in Procs :
        /\ pc[p] = "Assigned" /\ ~req[p].body.hasID
        /\ todo[p].ID = 2 /\ nextID = 3
        /\ DOMAIN todos = {1}
        /\ pc[q] = "Lock" /\ call[q] = "GetAll"

(***************************************************************************)
(* C25.  No storage or Operation Layer call blocks for ever: under fair    *)
(* scheduling every goroutine that has called a repository method, waiting *)
(* for the mutex or inside the method, gets to the end of its call with    *)
(* the mutex released, whatever other calls run beside it; and a goroutine *)
(* that is not inside a repository method never holds the mutex, on error  *)
(* returns as on successful ones.                                          *)
(***************************************************************************)
Calling(p) == pc[p] \in {"Lock", "Locked", "Assigned"}
Holds(p) == mu.w = p \/ p \in mu.r

C25_CallsReturn ==
    /\ [](\A p \in Procs : ~Inside(p) => ~Holds(p))
    /\ \A p \in Procs : Calling(p) ~> (pc[p] = "done" /\ ~Holds(p))

\* Two calls that ran side by side have returned, one of them a Create
\* refused with AlreadyExists and the other an UpdateTodo answered NotFound,
\* and the mutex is free.
C25_Witness ==
    \E p, q \in Procs :
        /\ pc[p] = "done" /\ handler[p] = "CreateTodo"
        /\ resp[p].code = StatusConflict
        /\ pc[q] = "done" /\ handler[q] = "UpdateTodo"
        /\ resp[q] = NotFoundResp
        /\ mu = [w |-> 0, r |-> {}]

(***************************************************************************)
(* C26.  A successful Create with a supplied id k other than 0 stores the  *)
(* record under k and leaves the counter at the greater of its old value   *)
(* and k + 1: unchanged when k is below the counter, and when k is at or   *)
(* above it the next Create without an id is assigned k + 1.               *)
(***************************************************************************)
Max(a, b) == IF a >= b THEN a ELSE b
\* The id a Create without an id would be assigned on store r.
NextAutoID(r) == Create(r, ZeroTodo).todo.ID

C26_SuppliedID ==
    [][\A p \in Procs :
          (Runs(p, "Create") /\ todo[p].ID # 0 /\ resp'[p].code = StatusCreated)
          => LET k == todo[p].ID
             IN  /\ todos' = Put(todos, k, todo[p])
                 /\ resp'[p].todo = todo[p]
                 /\ nextID' = Max(nextID, k + 1)
                 /\ k < nextID => nextID' = nextID
                 /\ k >= nextID => NextAutoID(repo)' = k + 1]_vars

(***************************************************************************)
(* C27.  A PUT on /todos/{id} applies its checks in the order path id,     *)
(* body, title, existence: a path id that does not parse is answered 400;  *)
(* then a body that does not decode 400; then an empty title 400; the      *)
(* three without a repository call, so also when the id is not in the      *)
(* store; and a PUT with a valid body on an id that is not in the store is *)
(* answered 404.                                                           *)
(***************************************************************************)
IsPut(r) == r.route = "/todos/" /\ r.method = "PUT"
InvalidBody == respondWithError(StatusBadRequest, "Invalid request body")
TitleRequired == respondWithError(StatusBadRequest, ErrEmptyTitle)

C27_PutCheckOrder ==
    [][\A p \in Procs :
          /\ (Serves(p) /\ IsPut(req'[p]))
             => LET r == req'[p]
                    answered == pc'[p] = "done" /\ call'[p] = "none" /\ StoreUnchanged
                IN  IF extractIDFromPath(PathParts(r.seg)).err
                    THEN resp'[p] = InvalidID /\ answered
                    ELSE IF ~r.body.wellFormed
                    THEN resp'[p] = InvalidBody /\ answered
                    ELSE IF r.body.title = ""
                    THEN resp'[p] = TitleRequired /\ answered
                    ELSE pc'[p] = "Lock" /\ call'[p] = "Exists" /\ resp'[p] = NoResp
          /\ (IsPut(req[p]) /\ Runs(p, "Exists") /\ id[p] \notin DOMAIN todos)
             => (resp'[p] = NotFoundResp /\ pc'[p] = "done")]_vars

\* Two PUTs on /todos/2 with nothing stored under 2: the one with an empty
\* title was answered 400, the one with a valid body 404.
C27_Witness ==
    \E p, q \in Procs :
        /\ 2 \notin DOMAIN todos
        /\ pc[p] = "done" /\ IsPut(req[p]) /\ req[p].seg = <<"2">>
        /\ req[p].body.wellFormed /\ req[p].body.title = ""
        /\ resp[p] = TitleRequired
        /\ pc[q] = "done" /\ IsPut(req[q]) /\ req[q].seg = <<"2">>
        /\ req[q].body.title # ""
        /\ resp[q] = NotFoundResp

(***************************************************************************)
(* C28.  No spurious timeout: when the goroutine of the request has closed *)
(* done before the deadline elapsed, Timeout writes nothing itself: the    *)
(* client is sent the handler's status and body and nothing else, no 408   *)
(* among it, and the wrapper's status stays the handler's.                 *)
(***************************************************************************)
\* What the client is sent when only the handler of goroutine p has written.
Produced(p) ==
    [code |-> resp[p].code,
     body |-> IF resp[p].kind = "empty" THEN <<>> ELSE <<Body(resp[p])>>]

C28_NoSpuriousTimeout ==
    \A p \in Procs :
        (mw[p].early /\ mw[p].at \in {"select", "returned", "logged"})
        => /\ mw[p].sent = Produced(p)
           /\ mw[p].statusCode # StatusRequestTimeout

(***************************************************************************)
(* C29.  Through the handlers an object is not assigned to once the map    *)
(* holds it or GetByID has handed it out: Update puts another object in    *)
(* its place.  So a GET of an id, whatever PUT on the id runs beside it,   *)
(* answers with the record exactly as the map held it when GetByID had the *)
(* mutex, the whole old record or the whole new one.                       *)
(***************************************************************************)
\* The objects the map holds and the ones GetByID has handed out.
Shared == {heap.key[k] : k \in DOMAIN heap.key} \cup ({heap.got[p] : p \in Procs} \ {0})

C29_NoTornRead ==
    /\ [][\A o \in Shared : heap'.obj[o] = heap.obj[o]]_vars
    /\ [](\A p \in Procs :
             /\ heap.got[p] # 0 => heap.obj[heap.got[p]] = heap.seen[p]
             /\ (pc[p] = "done" /\ handler[p] = "GetTodoByID" /\ resp[p].code = StatusOK)
                => resp[p].todo = heap.seen[p])

\* A GET and a PUT on one id have both been answered 200: GetByID had
\* handed out the old object before Update replaced it, and the GET
\* answered with the old record whole.
C29_Witness ==
    \E p, q \in Procs :
        /\ pc[p] = "done" /\ handler[p] = "GetTodoByID" /\ resp[p].code = StatusOK
        /\ pc[q] = "done" /\ handler[q] = "UpdateTodo" /\ resp[q].code = StatusOK
        /\ id[p] = id[q]
        /\ todos[id[p]] = resp[q].todo
        /\ resp[p].todo.Title # resp[q].todo.Title
        /\ resp[p].todo.Completed # resp[q].todo.Completed
        /\ heap.got[p] # heap.key[id[p]]

(***************************************************************************)
(* C30.  Key and id agree: after any CreateTodo, UpdateTodo and DeleteTodo *)
(* calls, in any order and interleaving, every record stored under a key k *)
(* has k in its id field.                                                  *)
(***************************************************************************)
C30_KeyIsID ==
    \A k \in DOMAIN todos : todos[k].ID = k

(***************************************************************************)
(* C31.  Frame of the writes.  A successful Update or Delete of an id      *)
(* leaves the allocator counter and the record under every other id as     *)
(* they were, and adds or removes no other key.  A successful Create       *)
(* leaves every record that was stored as it was: it adds one key, the new *)
(* id, and changes nothing else but the counter.                           *)
(***************************************************************************)
\* Every key but k keeps its record or its absence.
OthersKept(k) ==
    /\ DOMAIN todos' \ {k} = DOMAIN todos \ {k}
    /\ \A j \in DOMAIN todos \ {k} : todos'[j] = todos[j]

C31_WriteFrame ==
    [][\A p \in Procs :
          /\ (Runs(p, "Update") /\ resp'[p].code = StatusOK)
             => (OthersKept(todo[p].ID) /\ nextID' = nextID)
          /\ (Runs(p, "Delete") /\ resp'[p].code = StatusNoContent)
             => (OthersKept(id[p]) /\ nextID' = nextID)
          /\ (Runs(p, "Create") /\ resp'[p].code = StatusCreated)
             => /\ OthersKept(resp'[p].todo.ID)
                /\ resp'[p].todo.ID \notin DOMAIN todos
                /\ \A j \in DOMAIN todos : todos'[j] = todos[j]]_vars

(***************************************************************************)
(* C32.  When the parent context of a request is cancelled before the      *)
(* goroutine of the request has closed done, Timeout can return at once,   *)
(* wherever that goroutine stands; it returns without writing anything,    *)
(* and from the cancellation on no 408 is written for the request: the     *)
(* deadline does not end a context that is already cancelled.              *)
(***************************************************************************)
TimeoutBody == [respondWithError(0, "Request timeout") EXCEPT !.code = 0]

C32_CancelledNoTimeout ==
    [][\A p \in Procs :
          /\ (mw[p].at = "select" /\ mw[p].cancelled /\ pc[p] # "closed")
             => ENABLED SelectCancelled(p)
          /\ (mw[p].at = "select" /\ mw[p].cancelled /\ mw'[p].at = "returned")
             => /\ mw'[p].sent = mw[p].sent
                /\ mw'[p].statusCode = mw[p].statusCode
                /\ pc' = pc
          /\ (mw[p].cancelled /\ mw[p].at # "idle")
             => /\ mw'[p].statusCode # StatusRequestTimeout
                /\ mw'[p].sent.code # StatusRequestTimeout
                /\ \A i \in 1..Len(mw'[p].sent.body) : mw'[p].sent.body[i] # TimeoutBody
                /\ ~mw'[p].expired]_vars

\* The client of a POST went away while the goroutine of the request was
\* waiting for the repository's lock: Timeout and Logger have returned,
\* nothing was sent, and the goroutine is still waiting.
C32_Witness ==
    \E p \in Procs :
        /\ mw[p].cancelled
        /\ mw[p].at = "logged"
        /\ mw[p].sent = NoSent
        /\ mw[p].logged = StatusOK
        /\ handler[p] = "CreateTodo"
        /\ pc[p] = "Lock"
        /\ mu.w \notin {0, p}

====
